---------------------------- MODULE Spec2Model ----------------------------
(***************************************************************************)
(* A model of the rpt path tracer (src/src/*.rs): the vector algebra, the  *)
(* sphere/scene intersection, the thin-lens camera, the recursive          *)
(* integrator trace_ray, the per-tile renderer render_tile and the tile    *)
(* scheduler render_scene.                                                 *)
(*                                                                         *)
(* Numbers.  An f32 is modelled as a fixed-point integer: the integer n    *)
(* stands for the real n / SCALE.  Sums and differences are exact, every   *)
(* product, quotient and square root is rounded to the nearest multiple of *)
(* 1 / SCALE (f32 rounds to the nearest representable value).              *)
(*                                                                         *)
(* Randomness.  rand::thread_rng() is a generator seeded from the          *)
(* operating system when the thread first asks for it and deterministic    *)
(* afterwards.  It is modelled as a record [s, p]: s is the stream the     *)
(* seed determines (a finite sequence of values of [0,1), read cyclically) *)
(* and p the position of the next draw.  The seed is never an input of the *)
(* program: wherever the code calls thread_rng() the model chooses s.      *)
(***************************************************************************)
EXTENDS Integers, Sequences, FiniteSets, TLC

\* let x = e in F(x): the value e bound to a name that is used more than once.
Let(e, F(_)) == F(e)

\* Two values bound at once.
Let2(e1, e2, F(_, _)) == F(e1, e2)

(***************************************************************************)
(* Fixed-point arithmetic standing for f32.                                *)
(***************************************************************************)
SCALE == 1000

Abs(a) == IF a < 0 THEN -a ELSE a

\* a / b rounded to the nearest integer (b # 0), ties away from zero.
RDiv(a, b) ==
    LET q == (2 * Abs(a) + Abs(b)) \div (2 * Abs(b))
    IN  IF (a < 0) = (b < 0) THEN q ELSE -q

\* f32 product and quotient.
FMul(a, b) == RDiv(a * b, SCALE)
FDiv(a, b) == RDiv(a * SCALE, b)

\* The largest r in lo..hi with r * r <= n (lo * lo <= n is required).
RECURSIVE ISqrtIn(_, _, _)
ISqrtIn(n, lo, hi) ==
    IF lo >= hi THEN lo
    ELSE LET mid == (lo + hi + 1) \div 2
         IN  IF mid * mid <= n THEN ISqrtIn(n, mid, hi)
                               ELSE ISqrtIn(n, lo, mid - 1)

\* The integer nearest to the square root of n >= 0.
ISqrt(n) == Let(ISqrtIn(n, 0, 46340), LAMBDA r : IF n - r * r > r THEN r + 1 ELSE r)

\* f32::sqrt of a non-negative number.
FSqrt(a) == ISqrt(a * SCALE)

\* f32::min
FMin(a, b) == IF a < b THEN a ELSE b

\* f32::powi(x, 5)
Powi5(x) == Let(FMul(x, x), LAMBDA x2 : FMul(FMul(x2, x2), x))

(***************************************************************************)
(* vec3.rs                                                                 *)
(***************************************************************************)
Vec3(x, y, z) == [x |-> x, y |-> y, z |-> z]

dot(v1, v2) == FMul(v1.x, v2.x) + FMul(v1.y, v2.y) + FMul(v1.z, v2.z)

length_squared(v) == dot(v, v)

length(v) == FSqrt(length_squared(v))

\* f32 * &Vec3
VScale(s, v) == Vec3(FMul(s, v.x), FMul(s, v.y), FMul(s, v.z))

VAdd(a, b) == Vec3(a.x + b.x, a.y + b.y, a.z + b.z)

VSub(a, b) == Vec3(a.x - b.x, a.y - b.y, a.z - b.z)

VNeg(a) == Vec3(-a.x, -a.y, -a.z)

\* A vector of three NaN.
NaNVec == [nan |-> TRUE]

\* Vec3::normalize and vec3::normalize: every component times 1 / len.  The
\* reciprocal and the product are taken as one rounded quotient, so that the
\* fixed-point result is within one unit of the f32 one.  The zero vector has
\* len = 0: 1 / len is infinite and every component 0 * inf = NaN.
normalize(v) ==
    Let(length(v), LAMBDA len :
        IF len = 0 THEN NaNVec ELSE Vec3(FDiv(v.x, len), FDiv(v.y, len), FDiv(v.z, len)))

cross(v1, v2) ==
    Vec3(FMul(v1.y, v2.z) - FMul(v1.z, v2.y),
         FMul(v1.z, v2.x) - FMul(v1.x, v2.z),
         FMul(v1.x, v2.y) - FMul(v1.y, v2.x))

\* A reflection that takes the bracket once instead of twice.
ReflectOnce(v, n) ==
    Let(FMul(-v.x, n.x) + FMul(-v.y, n.y) + FMul(-v.z, n.z), LAMBDA d :
        Vec3(-v.x + (FMul(d, n.x) + v.x),
             -v.y + (FMul(d, n.y) + v.y),
             -v.z + (FMul(d, n.z) + v.z)))

reflect(v, n) ==
    Let(FMul(-v.x, n.x) + FMul(-v.y, n.y) + FMul(-v.z, n.z), LAMBDA d :
        Vec3(-v.x + 2 * (FMul(d, n.x) + v.x),
             -v.y + 2 * (FMul(d, n.y) + v.y),
             -v.z + 2 * (FMul(d, n.z) + v.z)))

\* Option<Vec3>: None, and Some(v).
NoVec == [some |-> FALSE]

SomeVec(v) == [some |-> TRUE, v |-> v]

\* refract: None stands for total internal reflection.
refract(v, n, ni_over_nt) ==
    Let(normalize(v), LAMBDA nv :
    Let(FMin(FMul(-nv.x, n.x) - FMul(nv.y, n.y) - FMul(nv.z, n.z), SCALE), LAMBDA cos_theta :
    Let(FSqrt(SCALE - FMul(cos_theta, cos_theta)), LAMBDA sin_theta :
        IF FMul(ni_over_nt, sin_theta) > SCALE
        THEN NoVec
        ELSE Let(Vec3(FMul(ni_over_nt, nv.x + FMul(cos_theta, n.x)),
                      FMul(ni_over_nt, nv.y + FMul(cos_theta, n.y)),
                      FMul(ni_over_nt, nv.z + FMul(cos_theta, n.z))), LAMBDA r_out_perp :
             Let(VScale(-FSqrt(Abs(SCALE - length_squared(r_out_perp))), n),
                 LAMBDA r_out_parallel : SomeVec(VAdd(r_out_perp, r_out_parallel)))))))

(***************************************************************************)
(* ray.rs                                                                  *)
(***************************************************************************)
Ray(o, d) == [o |-> o, d |-> d]

point_at(ray, t) ==
    Vec3(ray.o.x + FMul(t, ray.d.x),
         ray.o.y + FMul(t, ray.d.y),
         ray.o.z + FMul(t, ray.d.z))

(***************************************************************************)
(* scene.rs                                                                *)
(***************************************************************************)
PI == 3142

\* Texture
TextureNone == [kind |-> "None"]

Checkered(c1, c2, scale) == [kind |-> "Checkered", c1 |-> c1, c2 |-> c2, scale |-> scale]

\* Material
Diffuse(albedo, texture) == [kind |-> "Diffuse", albedo |-> albedo, texture |-> texture]

Metal(albedo, roughness) == [kind |-> "Metal", albedo |-> albedo, roughness |-> roughness]

Light(color) == [kind |-> "Light", color |-> color]

Glass(attenuation, ior) == [kind |-> "Glass", attenuation |-> attenuation, ior |-> ior]

MNormal == [kind |-> "Normal"]

\* Option<Hit>: None, and Some(Hit { p, n, t, uv, m }).
NoHit == [some |-> FALSE]

Hit(p, n, t, uv, m) == [some |-> TRUE, p |-> p, n |-> n, t |-> t, uv |-> uv, m |-> m]

Sphere(c, r, m) == [c |-> c, r |-> r, m |-> m]

\* f32::acos, as the chord through its values at -1, 0 and 1 (exact there).
ACos(a) == FMul(PI \div 2, SCALE - a)

\* f32::atan2, linear in each quadrant between its values on the axes (exact
\* there); atan2(0, 0) = 0.
ATan2(y, x) ==
    Let(Abs(x) + Abs(y), LAMBDA d :
    Let(IF d = 0 THEN 0 ELSE FMul(PI \div 2, FDiv(Abs(y), d)), LAMBDA q :
    Let(IF x >= 0 THEN q ELSE PI - q, LAMBDA a :
        IF y < 0 THEN -a ELSE a)))

get_sphere_uv(p) ==
    Let2(ACos(-p.y), ATan2(-p.z, p.x) + PI, LAMBDA theta, phi :
        <<FDiv(phi, 2 * PI), FDiv(theta, PI)>>)

\* The hit Sphere::hit builds for an accepted root t.
HitAt(s, ray, t) ==
    Let(point_at(ray, t), LAMBDA p :
    Let(normalize(VSub(p, s.c)), LAMBDA n :
        Hit(p, n, t, get_sphere_uv(n), s.m)))

\* Sphere::hit, were the smaller root accepted whatever its sign.
SphereHitAnyRoot(s, ray) ==
    Let(VSub(ray.o, s.c), LAMBDA oc :
    Let(length_squared(ray.d), LAMBDA a :
    Let(2 * dot(oc, ray.d), LAMBDA b :
    Let(length_squared(oc) - FMul(s.r, s.r), LAMBDA c :
    Let(FMul(b, b) - FMul(4 * a, c), LAMBDA discriminant :
        IF discriminant > 0
        THEN Let(FSqrt(discriminant), LAMBDA dsqrt :
                 HitAt(s, ray, FDiv(-b - dsqrt, 2 * a)))
        ELSE NoHit)))))

\* Sphere::hit, were a discriminant of zero accepted too.
SphereHitTangent(s, ray) ==
    Let(VSub(ray.o, s.c), LAMBDA oc :
    Let(length_squared(ray.d), LAMBDA a :
    Let(2 * dot(oc, ray.d), LAMBDA b :
    Let(length_squared(oc) - FMul(s.r, s.r), LAMBDA c :
    Let(FMul(b, b) - FMul(4 * a, c), LAMBDA discriminant :
        IF discriminant >= 0
        THEN Let(FSqrt(discriminant), LAMBDA dsqrt :
             Let2(FDiv(-b - dsqrt, 2 * a), FDiv(-b + dsqrt, 2 * a), LAMBDA t1, t2 :
                 IF t1 > 0 THEN HitAt(s, ray, t1)
                 ELSE IF t2 > 0 THEN HitAt(s, ray, t2)
                 ELSE NoHit))
        ELSE NoHit)))))

\* Sphere::hit
SphereHit(s, ray) ==
    Let(VSub(ray.o, s.c), LAMBDA oc :
    Let(length_squared(ray.d), LAMBDA a :
    Let(2 * dot(oc, ray.d), LAMBDA b :
    Let(length_squared(oc) - FMul(s.r, s.r), LAMBDA c :
    Let(FMul(b, b) - FMul(4 * a, c), LAMBDA discriminant :
        IF discriminant > 0
        THEN Let(FSqrt(discriminant), LAMBDA dsqrt :
             Let2(FDiv(-b - dsqrt, 2 * a), FDiv(-b + dsqrt, 2 * a), LAMBDA t1, t2 :
                 IF t1 > 0 THEN HitAt(s, ray, t1)
                 ELSE IF t2 > 0 THEN HitAt(s, ray, t2)
                 ELSE NoHit))
        ELSE NoHit)))))

\* f32::MAX, above every t of the model.
F32_MAX == 2147483647

\* The loop of Scene::hit over spheres[k..], entered with smallest_t and
\* closest_hit.
RECURSIVE SceneHitFrom(_, _, _, _, _)
SceneHitFrom(spheres, k, ray, smallest_t, closest_hit) ==
    IF k > Len(spheres) THEN closest_hit
    ELSE Let(SphereHit(spheres[k], ray), LAMBDA hit :
             IF hit.some /\ hit.t < smallest_t
             THEN SceneHitFrom(spheres, k + 1, ray, hit.t, hit)
             ELSE SceneHitFrom(spheres, k + 1, ray, smallest_t, closest_hit))

\* Scene::hit, were it to return the hit of the first sphere that is hit.
SceneHitFirstFound(spheres, ray) ==
    IF \E k \in 1 .. Len(spheres) : SphereHit(spheres[k], ray).some
    THEN SphereHit(spheres[CHOOSE k \in 1 .. Len(spheres) :
                              /\ SphereHit(spheres[k], ray).some
                              /\ \A j \in 1 .. (k - 1) : ~SphereHit(spheres[j], ray).some], ray)
    ELSE NoHit

\* Scene::hit; a scene is the sequence of its spheres.
SceneHit(scene, ray) == SceneHitFrom(scene, 1, ray, F32_MAX, NoHit)

(***************************************************************************)
(* Axis aligned bounding boxes (bbox.rs).                                  *)
(***************************************************************************)
\* f32::max
FMax(a, b) == IF a > b THEN a ELSE b

BBox(min, max) == [min |-> min, max |-> max]

\* BBox::new_from_points
new_from_points(p1, p2) ==
    BBox(Vec3(FMin(p1.x, p2.x), FMin(p1.y, p2.y), FMin(p1.z, p2.z)),
         Vec3(FMax(p1.x, p2.x), FMax(p1.y, p2.y), FMax(p1.z, p2.z)))

\* &bbox + &p
AddPoint(self, p) ==
    BBox(Vec3(FMin(self.min.x, p.x), FMin(self.min.y, p.y), FMin(self.min.z, p.z)),
         Vec3(FMax(self.max.x, p.x), FMax(self.max.y, p.y), FMax(self.max.z, p.z)))

\* bbox += &v: the six assignments in their order, each reading the fields
\* as the ones before it left them.  min.z and max.z are computed from
\* self.min.y and self.max.y.
AddAssignPoint(self, v) ==
    Let(FMin(self.min.x, v.x), LAMBDA min_x :
    Let(FMin(self.min.y, v.y), LAMBDA min_y :
    Let(FMin(min_y, v.z), LAMBDA min_z :
    Let(FMax(self.max.x, v.x), LAMBDA max_x :
    Let(FMax(self.max.y, v.y), LAMBDA max_y :
    Let(FMax(max_y, v.z), LAMBDA max_z :
        BBox(Vec3(min_x, min_y, min_z), Vec3(max_x, max_y, max_z))))))))

\* &bbox + &other
AddBox(self, bbox) ==
    BBox(Vec3(FMin(self.min.x, bbox.min.x), FMin(self.min.y, bbox.min.y),
              FMin(self.min.z, bbox.min.z)),
         Vec3(FMax(self.max.x, bbox.max.x), FMax(self.max.y, bbox.max.y),
              FMax(self.max.z, bbox.max.z)))

\* bbox += &other: as for a point, min.z and max.z are computed from
\* self.min.y and self.max.y.
AddAssignBox(self, bbox) ==
    Let(FMin(self.min.x, bbox.min.x), LAMBDA min_x :
    Let(FMin(self.min.y, bbox.min.y), LAMBDA min_y :
    Let(FMin(min_y, bbox.min.z), LAMBDA min_z :
    Let(FMax(self.max.x, bbox.max.x), LAMBDA max_x :
    Let(FMax(self.max.y, bbox.max.y), LAMBDA max_y :
    Let(FMax(max_y, bbox.max.z), LAMBDA max_z :
        BBox(Vec3(min_x, min_y, min_z), Vec3(max_x, max_y, max_z))))))))

(***************************************************************************)
(* 4x4 matrices (mat4.rs).                                                 *)
(***************************************************************************)

\* Mat4::new: the sixteen values, row by row.
Mat4(r0, r1, r2, r3) ==
    [m00 |-> r0[1], m01 |-> r0[2], m02 |-> r0[3], m03 |-> r0[4],
     m10 |-> r1[1], m11 |-> r1[2], m12 |-> r1[3], m13 |-> r1[4],
     m20 |-> r2[1], m21 |-> r2[2], m22 |-> r2[3], m23 |-> r2[4],
     m30 |-> r3[1], m31 |-> r3[2], m32 |-> r3[3], m33 |-> r3[4]]

\* mat4::determinant: the 24 products in the order of the source, each
\* multiplied from left to right.
determinant(m) ==
    FMul(FMul(FMul(m.m03, m.m12), m.m21), m.m30) - FMul(FMul(FMul(m.m02, m.m13), m.m21), m.m30)
    - FMul(FMul(FMul(m.m03, m.m11), m.m22), m.m30) + FMul(FMul(FMul(m.m01, m.m13), m.m22), m.m30)
    + FMul(FMul(FMul(m.m02, m.m11), m.m23), m.m30) - FMul(FMul(FMul(m.m01, m.m12), m.m23), m.m30)
    - FMul(FMul(FMul(m.m03, m.m12), m.m20), m.m31) + FMul(FMul(FMul(m.m02, m.m13), m.m20), m.m31)
    + FMul(FMul(FMul(m.m03, m.m10), m.m22), m.m31) - FMul(FMul(FMul(m.m00, m.m13), m.m22), m.m31)
    - FMul(FMul(FMul(m.m02, m.m10), m.m23), m.m31) + FMul(FMul(FMul(m.m00, m.m12), m.m23), m.m31)
    + FMul(FMul(FMul(m.m03, m.m11), m.m20), m.m32) - FMul(FMul(FMul(m.m01, m.m13), m.m20), m.m32)
    - FMul(FMul(FMul(m.m03, m.m10), m.m21), m.m32) + FMul(FMul(FMul(m.m00, m.m13), m.m21), m.m32)
    + FMul(FMul(FMul(m.m01, m.m10), m.m23), m.m32) - FMul(FMul(FMul(m.m00, m.m11), m.m23), m.m32)
    - FMul(FMul(FMul(m.m02, m.m11), m.m20), m.m33) + FMul(FMul(FMul(m.m01, m.m12), m.m20), m.m33)
    + FMul(FMul(FMul(m.m02, m.m10), m.m21), m.m33) - FMul(FMul(FMul(m.m00, m.m12), m.m21), m.m33)
    - FMul(FMul(FMul(m.m01, m.m10), m.m22), m.m33) + FMul(FMul(FMul(m.m00, m.m11), m.m22), m.m33)

\* The adjugate inverse builds, row by row.
adjugate(m) ==
    Mat4(<<FMul(FMul(m.m12, m.m23), m.m31) - FMul(FMul(m.m13, m.m22), m.m31)
          + FMul(FMul(m.m13, m.m21), m.m32) - FMul(FMul(m.m11, m.m23), m.m32)
          - FMul(FMul(m.m12, m.m21), m.m33) + FMul(FMul(m.m11, m.m22), m.m33),
         FMul(FMul(m.m03, m.m22), m.m31) - FMul(FMul(m.m02, m.m23), m.m31)
          - FMul(FMul(m.m03, m.m21), m.m32) + FMul(FMul(m.m01, m.m23), m.m32)
          + FMul(FMul(m.m02, m.m21), m.m33) - FMul(FMul(m.m01, m.m22), m.m33),
         FMul(FMul(m.m02, m.m13), m.m31) - FMul(FMul(m.m03, m.m12), m.m31)
          + FMul(FMul(m.m03, m.m11), m.m32) - FMul(FMul(m.m01, m.m13), m.m32)
          - FMul(FMul(m.m02, m.m11), m.m33) + FMul(FMul(m.m01, m.m12), m.m33),
         FMul(FMul(m.m03, m.m12), m.m21) - FMul(FMul(m.m02, m.m13), m.m21)
          - FMul(FMul(m.m03, m.m11), m.m22) + FMul(FMul(m.m01, m.m13), m.m22)
          + FMul(FMul(m.m02, m.m11), m.m23) - FMul(FMul(m.m01, m.m12), m.m23)>>,
         <<FMul(FMul(m.m13, m.m22), m.m30) - FMul(FMul(m.m12, m.m23), m.m30)
          - FMul(FMul(m.m13, m.m20), m.m32) + FMul(FMul(m.m10, m.m23), m.m32)
          + FMul(FMul(m.m12, m.m20), m.m33) - FMul(FMul(m.m10, m.m22), m.m33),
         FMul(FMul(m.m02, m.m23), m.m30) - FMul(FMul(m.m03, m.m22), m.m30)
          + FMul(FMul(m.m03, m.m20), m.m32) - FMul(FMul(m.m00, m.m23), m.m32)
          - FMul(FMul(m.m02, m.m20), m.m33) + FMul(FMul(m.m00, m.m22), m.m33),
         FMul(FMul(m.m03, m.m12), m.m30) - FMul(FMul(m.m02, m.m13), m.m30)
          - FMul(FMul(m.m03, m.m10), m.m32) + FMul(FMul(m.m00, m.m13), m.m32)
          + FMul(FMul(m.m02, m.m10), m.m33) - FMul(FMul(m.m00, m.m12), m.m33),
         FMul(FMul(m.m02, m.m13), m.m20) - FMul(FMul(m.m03, m.m12), m.m20)
          + FMul(FMul(m.m03, m.m10), m.m22) - FMul(FMul(m.m00, m.m13), m.m22)
          - FMul(FMul(m.m02, m.m10), m.m23) + FMul(FMul(m.m00, m.m12), m.m23)>>,
         <<FMul(FMul(m.m11, m.m23), m.m30) - FMul(FMul(m.m13, m.m21), m.m30)
          + FMul(FMul(m.m13, m.m20), m.m31) - FMul(FMul(m.m10, m.m23), m.m31)
          - FMul(FMul(m.m11, m.m20), m.m33) + FMul(FMul(m.m10, m.m21), m.m33),
         FMul(FMul(m.m03, m.m21), m.m30) - FMul(FMul(m.m01, m.m23), m.m30)
          - FMul(FMul(m.m03, m.m20), m.m31) + FMul(FMul(m.m00, m.m23), m.m31)
          + FMul(FMul(m.m01, m.m20), m.m33) - FMul(FMul(m.m00, m.m21), m.m33),
         FMul(FMul(m.m01, m.m13), m.m30) - FMul(FMul(m.m03, m.m11), m.m30)
          + FMul(FMul(m.m03, m.m10), m.m31) - FMul(FMul(m.m00, m.m13), m.m31)
          - FMul(FMul(m.m01, m.m10), m.m33) + FMul(FMul(m.m00, m.m11), m.m33),
         FMul(FMul(m.m03, m.m11), m.m20) - FMul(FMul(m.m01, m.m13), m.m20)
          - FMul(FMul(m.m03, m.m10), m.m21) + FMul(FMul(m.m00, m.m13), m.m21)
          + FMul(FMul(m.m01, m.m10), m.m23) - FMul(FMul(m.m00, m.m11), m.m23)>>,
         <<FMul(FMul(m.m12, m.m21), m.m30) - FMul(FMul(m.m11, m.m22), m.m30)
          - FMul(FMul(m.m12, m.m20), m.m31) + FMul(FMul(m.m10, m.m22), m.m31)
          + FMul(FMul(m.m11, m.m20), m.m32) - FMul(FMul(m.m10, m.m21), m.m32),
         FMul(FMul(m.m01, m.m22), m.m30) - FMul(FMul(m.m02, m.m21), m.m30)
          + FMul(FMul(m.m02, m.m20), m.m31) - FMul(FMul(m.m00, m.m22), m.m31)
          - FMul(FMul(m.m01, m.m20), m.m32) + FMul(FMul(m.m00, m.m21), m.m32),
         FMul(FMul(m.m02, m.m11), m.m30) - FMul(FMul(m.m01, m.m12), m.m30)
          - FMul(FMul(m.m02, m.m10), m.m31) + FMul(FMul(m.m00, m.m12), m.m31)
          + FMul(FMul(m.m01, m.m10), m.m32) - FMul(FMul(m.m00, m.m11), m.m32),
         FMul(FMul(m.m01, m.m12), m.m20) - FMul(FMul(m.m02, m.m11), m.m20)
          + FMul(FMul(m.m02, m.m10), m.m21) - FMul(FMul(m.m00, m.m12), m.m21)
          - FMul(FMul(m.m01, m.m10), m.m22) + FMul(FMul(m.m00, m.m11), m.m22)>>)

\* A value that is infinite or NaN.
NonFinite == [finite |-> FALSE]

\* a * (1.0 / det): infinite or NaN when det is zero.
TimesInverse(a, det) == IF det = 0 THEN NonFinite ELSE FDiv(a, det)

\* What a call that panics comes to.
Panicked == [panic |-> TRUE]

\* mat4::inverse.  debug_assert_ne!(det, 0.0) is compiled only into builds
\* with debug assertions; the other builds go on to scale the adjugate by
\* 1.0 / det and return it.
inverse(m, debug_assertions) ==
    Let(determinant(m), LAMBDA det :
        IF debug_assertions /\ det = 0 THEN Panicked
        ELSE Let(adjugate(m), LAMBDA adj :
                 [panic |-> FALSE,
                  m |-> [f \in DOMAIN adj |-> TimesInverse(adj[f], det)]]))

(***************************************************************************)
(* The random stream (rand::thread_rng, Rng::gen::<f32>).                  *)
(***************************************************************************)
\* The generator a seed determines: the stream s, read cyclically from p.
Rng(s, p) == [s |-> s, p |-> p]

\* The value of [0,1) the k-th next call of rng.gen() yields (k = 0: the next).
Gen(rng, k) == rng.s[((rng.p + k) % Len(rng.s)) + 1]

\* The generator after k calls of rng.gen().
Adv(rng, k) == Rng(rng.s, (rng.p + k) % Len(rng.s))

\* What a computation that draws from the stream comes to: Looping (a
\* rejection loop that accepts no sample of the stream, and so never ends), or
\* Done with a value v, the generator left behind and the counts of calls of
\* rng.gen(), of Scene::hit and of trace_ray made on the way.
Looping == [ok |-> FALSE]

Done(v, rng, ndraw, nhit, ncall) ==
    [ok |-> TRUE, v |-> v, rng |-> rng, ndraw |-> ndraw, nhit |-> nhit, ncall |-> ncall]

\* The computation F continues from what m came to, unless m never ends.
Then(m, F(_)) == IF m.ok THEN F(m) ELSE Looping

(***************************************************************************)
(* camera.rs                                                               *)
(***************************************************************************)
\* PerspectiveCamera::look_at, with h the tangent of half the field of view
\* (fov / 180 * PI / 2), which the model takes as given.
look_at(eye, target, up, h, aspect_ratio, focal_distance, lens_radius) ==
    Let(VSub(target, eye), LAMBDA dir0 :
    Let(FMul(2 * h, length(dir0)), LAMBDA viewport_width :
    Let(normalize(dir0), LAMBDA dir :
    Let(normalize(cross(up, dir)), LAMBDA u_axis :
        [origin |-> eye, target |-> target, u_axis |-> u_axis, v_axis |-> cross(dir, u_axis),
         viewport_width |-> viewport_width,
         viewport_height |-> FMul(aspect_ratio, viewport_width),
         focal_distance |-> focal_distance, lens_radius |-> lens_radius]))))

\* The lens loop of generate_ray: draw pairs until one lies in the unit disk.
\* A cyclic stream shows every pair it holds within Len(s) rounds, so a loop
\* that has not accepted by then never does.
RECURSIVE LensLoop(_, _, _)
LensLoop(rng, ndraw, fuel) ==
    IF fuel = 0 THEN Looping
    ELSE Let2(Gen(rng, 0), Gen(rng, 1), LAMBDA u, v :
             IF FMul(u, u) + FMul(v, v) < SCALE
             THEN Done(<<u, v>>, Adv(rng, 2), ndraw + 2, 0, 0)
             ELSE LensLoop(Adv(rng, 2), ndraw + 2, fuel - 1))

\* An origin moved by the lens sample whatever the lens radius.
LensOriginUnscaled(cam, sample) ==
    VAdd(VAdd(cam.origin, VScale(sample[1], cam.u_axis)), VScale(sample[2], cam.v_axis))

\* The ray origin moved by the accepted lens sample (u, v), scaled by the
\* lens radius, along the camera's axes.
LensOrigin(cam, sample) ==
    VAdd(VAdd(cam.origin, VScale(FMul(sample[1], cam.lens_radius), cam.u_axis)),
         VScale(FMul(sample[2], cam.lens_radius), cam.v_axis))

\* PerspectiveCamera::generate_ray
generate_ray(cam, u, v, rng) ==
    Let(VAdd(VAdd(cam.target, VScale(FMul(u, cam.viewport_width), cam.u_axis)),
             VScale(FMul(v, cam.viewport_height), cam.v_axis)), LAMBDA target :
    Let(normalize(VSub(target, cam.origin)), LAMBDA dir :
    Let(point_at(Ray(cam.origin, dir), cam.focal_distance), LAMBDA focus_point :
    Then(LensLoop(rng, 0, Len(rng.s)), LAMBDA lens :
    Let(LensOrigin(cam, lens.v), LAMBDA o :
        Done(Ray(o, normalize(VSub(focus_point, o))), lens.rng, lens.ndraw, 0, 0))))))

(***************************************************************************)
(* main.rs: trace_ray                                                      *)
(***************************************************************************)
MAX_DEPTH == 8

\* A cutoff two levels deeper.
DepthCutoffDeeper(depth) == depth >= MAX_DEPTH + 2

\* A cutoff that lets depth = MAX_DEPTH through.
DepthCutoffLate(depth) == depth > MAX_DEPTH

\* The cutoff test of trace_ray.
DepthCutoff(depth) == depth >= MAX_DEPTH

\* A rejection loop that gives up after its last round and takes the sample
\* it rejected.
RECURSIVE BallLoopCapped(_, _, _, _)
BallLoopCapped(rng, bound, ndraw, fuel) ==
    Let(Vec3(2 * Gen(rng, 0) - SCALE, 2 * Gen(rng, 1) - SCALE, 2 * Gen(rng, 2) - SCALE),
        LAMBDA rand :
            IF length_squared(rand) < bound \/ fuel <= 1
            THEN Done(rand, Adv(rng, 3), ndraw + 3, 0, 0)
            ELSE BallLoopCapped(Adv(rng, 3), bound, ndraw + 3, fuel - 1))

\* The rejection loop of the Diffuse and Metal branches: draw triples, map them
\* to the cube [-1,1)^3, until one has squared length below bound.
RECURSIVE BallLoop(_, _, _, _)
BallLoop(rng, bound, ndraw, fuel) ==
    IF fuel = 0 THEN Looping
    ELSE Let(Vec3(2 * Gen(rng, 0) - SCALE, 2 * Gen(rng, 1) - SCALE, 2 * Gen(rng, 2) - SCALE),
             LAMBDA rand :
                 IF length_squared(rand) < bound
                 THEN Done(rand, Adv(rng, 3), ndraw + 3, 0, 0)
                 ELSE BallLoop(Adv(rng, 3), bound, ndraw + 3, fuel - 1))

\* new_ray.o += 0.001 * new_ray.d, component by component: a direction of
\* NaN makes the origin NaN.
Nudge(r) ==
    IF r.d = NaNVec THEN Ray(NaNVec, NaNVec)
    ELSE Ray(Vec3(r.o.x + FMul(1, r.d.x), r.o.y + FMul(1, r.d.y), r.o.z + FMul(1, r.d.z)), r.d)

\* The sign of f32::sin(a): that of a's place in its period of 2 * PI.
SinSign(a) ==
    Let(a % (2 * PI), LAMBDA r : IF r = 0 \/ r = PI THEN 0 ELSE IF r < PI THEN 1 ELSE -1)

\* The albedo a Diffuse hit is shaded with.
DiffuseAlbedo(albedo, texture, uv) ==
    IF texture.kind = "Checkered"
    THEN IF SinSign(FMul(texture.scale, uv[1]))
              * SinSign(FMul(10 * texture.scale, uv[2])) > 0
         THEN texture.c1
         ELSE texture.c2
    ELSE albedo

\* Vec3::new(a.x * c.x, a.y * c.y, a.z * c.z); any finite number times NaN
\* is NaN.
Modulate(a, c) ==
    IF c = NaNVec THEN NaNVec ELSE Vec3(FMul(a.x, c.x), FMul(a.y, c.y), FMul(a.z, c.z))

\* The Schlick reflectance of the Glass branch.
Schlick(d, normal, refraction_ratio) ==
    Let(normalize(VNeg(d)), LAMBDA v :
    Let(FMin(FMul(v.x, normal.x) + FMul(v.y, normal.y) + FMul(v.z, normal.z), SCALE),
        LAMBDA cos_theta :
    Let(FDiv(SCALE - refraction_ratio, SCALE + refraction_ratio), LAMBDA r00 :
    Let(FMul(r00, r00), LAMBDA r0 :
        r0 + FMul(SCALE - r0, Powi5(SCALE - cos_theta))))))

\* A Metal branch whose offsets are taken from the whole unit ball.
MetalRayUnitBall(ray, hit, roughness, rng) ==
    Then(IF roughness > 0
         THEN BallLoop(rng, SCALE, 0, Len(rng.s))
         ELSE Done(Vec3(0, 0, 0), rng, 0, 0, 0), LAMBDA loop :
        Done(Ray(hit.p, normalize(VAdd(reflect(ray.d, hit.n), loop.v))),
             loop.rng, loop.ndraw, 0, 0))

\* The ray a Metal hit continues along, before it is nudged: the reflection
\* of the incoming direction, moved when roughness > 0 by the offset the
\* rejection loop accepts (squared length below roughness), normalized.
MetalRay(ray, hit, roughness, rng) ==
    Then(IF roughness > 0
         THEN BallLoop(rng, roughness, 0, Len(rng.s))
         ELSE Done(Vec3(0, 0, 0), rng, 0, 0, 0), LAMBDA loop :
        Done(Ray(hit.p, normalize(VAdd(reflect(ray.d, hit.n), loop.v))),
             loop.rng, loop.ndraw, 0, 0))

\* A Glass branch that takes every ray for an entering one.
GlassRayAlwaysEntering(ray, hit, ior, rand) ==
    Let2(FDiv(SCALE, ior), hit.n, LAMBDA refraction_ratio, normal :
    Let2(Schlick(ray.d, normal, refraction_ratio),
         refract(ray.d, normal, refraction_ratio), LAMBDA schlick, refracted :
        IF refracted.some /\ ~(schlick > rand)
        THEN Ray(hit.p, normalize(refracted.v))
        ELSE Ray(hit.p, normalize(reflect(ray.d, normal)))))

\* The ray a Glass hit continues along, given the uniform draw rand.
GlassRay(ray, hit, ior, rand) ==
    Let(dot(ray.d, hit.n) < 0, LAMBDA entering :
    Let2(IF entering THEN FDiv(SCALE, ior) ELSE ior,
         IF entering THEN hit.n ELSE VNeg(hit.n), LAMBDA refraction_ratio, normal :
    Let2(Schlick(ray.d, normal, refraction_ratio),
         refract(ray.d, normal, refraction_ratio), LAMBDA schlick, refracted :
        IF refracted.some /\ ~(schlick > rand)
        THEN Ray(hit.p, normalize(refracted.v))
        ELSE Ray(hit.p, normalize(reflect(ray.d, normal))))))

\* A Light branch that dims the colour.
ShadeLightDimmed(color) == Vec3(FMul(color.x, 500), FMul(color.y, 500), FMul(color.z, 500))

\* The Light branch.
ShadeLight(color) == color

\* A Normal branch that returns the normal itself.
ShadeNormalSigned(n) == n

\* The Normal branch.
ShadeNormal(n) ==
    Vec3(FMul(500, n.x + SCALE), FMul(500, n.y + SCALE), FMul(500, n.z + SCALE))

\* A background whose gradient runs the other way.
BackgroundSwapped(ray) ==
    Let(normalize(ray.d), LAMBDA normalized :
    Let(FMul(500, normalized.y + SCALE), LAMBDA t :
        Vec3(FMul(t, SCALE) + FMul(SCALE - t, 500),
             FMul(t, SCALE) + FMul(SCALE - t, 700),
             FMul(t, SCALE) + FMul(SCALE - t, 900))))

\* The background branch: the gradient over the normalized direction's y.
Background(ray) ==
    Let(normalize(ray.d), LAMBDA normalized :
    Let(FMul(500, normalized.y + SCALE), LAMBDA t :
        Vec3(FMul(SCALE - t, SCALE) + FMul(t, 500),
             FMul(SCALE - t, SCALE) + FMul(t, 700),
             FMul(SCALE - t, SCALE) + FMul(t, 900))))

\* The result of a branch that recursed: the recursive call's result sub,
\* modulated by the colour a, with the branch's own ndraw draws and the one
\* Scene::hit and one invocation of this level counted in.
Recursed(a, sub, ndraw) ==
    Then(sub, LAMBDA c :
        Done(Modulate(a, c.v), c.rng, ndraw + c.ndraw, 1 + c.nhit, 1 + c.ncall))

\* trace_ray.  A ray of NaN direction hits nothing, every comparison of
\* Sphere::hit and Scene::hit with NaN being false, and its background
\* colour is NaN.
RECURSIVE trace_ray(_, _, _, _)
trace_ray(scene, ray, rng, depth) ==
    IF DepthCutoff(depth) THEN Done(Vec3(0, 0, 0), rng, 0, 0, 1)
    ELSE IF ray.d = NaNVec THEN Done(NaNVec, rng, 0, 1, 1)
    ELSE Let(SceneHit(scene, ray), LAMBDA hit :
        IF ~hit.some THEN Done(Background(ray), rng, 0, 1, 1)
        ELSE
        CASE hit.m.kind = "Diffuse" ->
               Then(BallLoop(rng, SCALE, 0, Len(rng.s)), LAMBDA loop :
               Let(normalize(VAdd(hit.n, loop.v)), LAMBDA target :
                   Recursed(DiffuseAlbedo(hit.m.albedo, hit.m.texture, hit.uv),
                            trace_ray(scene, Nudge(Ray(hit.p, target)), loop.rng, depth + 1),
                            loop.ndraw)))
          [] hit.m.kind = "Metal" ->
               Then(MetalRay(ray, hit, hit.m.roughness, rng), LAMBDA new_ray :
                   Recursed(hit.m.albedo,
                            trace_ray(scene, Nudge(new_ray.v), new_ray.rng, depth + 1),
                            new_ray.ndraw))
          [] hit.m.kind = "Glass" ->
               Let(GlassRay(ray, hit, hit.m.ior, Gen(rng, 0)), LAMBDA new_ray :
                   Recursed(hit.m.attenuation,
                            trace_ray(scene, Nudge(new_ray), Adv(rng, 1), depth + 1),
                            1))
          [] hit.m.kind = "Light" -> Done(ShadeLight(hit.m.color), rng, 0, 1, 1)
          [] hit.m.kind = "Normal" -> Done(ShadeNormal(hit.n), rng, 0, 1, 1))

(***************************************************************************)
(* main.rs: render_tile, one pixel at a time                               *)
(***************************************************************************)
IMAGE_WIDTH == 2
IMAGE_HEIGHT == 3
PIXEL_SAMPLES == 2

Tile(min_x, min_y, max_x, max_y) ==
    [min_x |-> min_x, min_y |-> min_y, max_x |-> max_x, max_y |-> max_y]

\* A position whose rows count upwards from the bottom of the viewport.
SamplePositionRowsUp(x, y, pixel_sample_u, pixel_sample_v) ==
    <<FDiv(x * SCALE + pixel_sample_u, IMAGE_WIDTH * SCALE),
      FDiv(y * SCALE + pixel_sample_v, IMAGE_HEIGHT * SCALE)>>

\* (pixel_u, pixel_v): the position on the image plane of the sample of
\* pixel (x, y) that the two draws jitter.
SamplePosition(x, y, pixel_sample_u, pixel_sample_v) ==
    <<FDiv(x * SCALE + pixel_sample_u, IMAGE_WIDTH * SCALE),
      SCALE - FDiv(y * SCALE + pixel_sample_v, IMAGE_HEIGHT * SCALE)>>

\* The body of the sample loop for pixel (x, y): the jittered image-plane
\* position, the camera ray and its radiance.
Sample(scn, cam, x, y, rng) ==
    Let(SamplePosition(x, y, Gen(rng, 0), Gen(rng, 1)), LAMBDA pixel :
    Then(generate_ray(cam, pixel[1] - 500, pixel[2] - 500, Adv(rng, 2)), LAMBDA ray :
    Then(trace_ray(scn, ray.v, ray.rng, 0), LAMBDA c :
        Done(c.v, c.rng, 2 + ray.ndraw + c.ndraw, c.nhit, c.ncall))))

\* The sample loop with k samples to go, color accumulated so far.
RECURSIVE SampleLoop(_, _, _, _, _, _, _)
SampleLoop(scn, cam, x, y, rng, color, k) ==
    IF k = 0 THEN Done(color, rng, 0, 0, 0)
    ELSE Then(Sample(scn, cam, x, y, rng), LAMBDA c :
         Then(SampleLoop(scn, cam, x, y, c.rng, VAdd(color, c.v), k - 1), LAMBDA rest :
             Done(rest.v, rest.rng, c.ndraw + rest.ndraw, c.nhit + rest.nhit,
                  c.ncall + rest.ncall)))

\* A conversion to u8 that rounds to the nearest integer.
AsU8Rounded(a) == IF a < 0 THEN 0 ELSE IF RDiv(a, SCALE) > 255 THEN 255 ELSE RDiv(a, SCALE)

\* A conversion to u8 that keeps the low eight bits of the integer part.
AsU8Wrapped(a) == IF a < 0 THEN 0 ELSE (a \div SCALE) % 256

\* f32 as u8: the integer part, kept within 0..255.
AsU8(a) == IF a < 0 THEN 0 ELSE IF a \div SCALE > 255 THEN 255 ELSE a \div SCALE

\* The four bytes written for a pixel whose averaged radiance is color.
PixelBytes(color) ==
    <<AsU8(FMul(255990, FSqrt(color.x))),
      AsU8(FMul(255990, FSqrt(color.y))),
      AsU8(FMul(255990, FSqrt(color.z))),
      255>>

\* The radiance of pixel (x, y): the sum of its samples, times
\* 1.0 / PIXEL_SAMPLES.
PixelColor(scn, cam, x, y, rng) ==
    Then(SampleLoop(scn, cam, x, y, rng, Vec3(0, 0, 0), PIXEL_SAMPLES), LAMBDA sum :
        Done(VScale(FDiv(SCALE, PIXEL_SAMPLES * SCALE), sum.v),
             sum.rng, sum.ndraw, sum.nhit, sum.ncall))

\* The body of the pixel loop for (x, y): Looping, or Done with the pixel's
\* four bytes.
Pixel(scn, cam, x, y, rng) ==
    Then(PixelColor(scn, cam, x, y, rng), LAMBDA color :
        Done(PixelBytes(color.v), color.rng, color.ndraw, color.nhit, color.ncall))

(***************************************************************************)
(* The state: render_scene (the scheduler), its worker threads, each       *)
(* running render_tile, and a single call of trace_ray.                    *)
(***************************************************************************)
MaxThreads == 4

Workers == 0 .. (MaxThreads - 1)

VARIABLES
    scene,         \* the Arc<Scene> every worker holds a clone of
    camera,        \* the Arc<PerspectiveCamera> every worker holds a clone of
    seeds,         \* the streams thread_rng() may be seeded with
    num_threads,   \* render_scene's argument
    sched_pc,      \* "start", "spawn", "join", "returned", "panicked", "idle"
    tile_height,   \* render_scene's local
    spawn_i,       \* the spawn loop's i; handles holds workers 0 .. spawn_i - 1
    join_i,        \* the index of the handle the join loop is at
    result,        \* render_scene's result buffer
    wstatus,       \* per worker: "unspawned", "spawned", "running", "finished", "panicked"
    wtile,         \* per worker: the tile it renders
    wy,            \* per worker: render_tile's y
    wx,            \* per worker: render_tile's x
    wi,            \* per worker: render_tile's write index i
    woutput,       \* per worker: render_tile's output buffer
    wrng,          \* per worker: the thread's generator
    pix,           \* history: per pixel y * IMAGE_WIDTH + x, the bytes last rendered for it
    out_of_order,  \* history: some worker returned before one of lower index
    tr_in,         \* the arguments of the trace_ray call
    tr_out,        \* its result; NotCalled before the call
    call,          \* the function of a single call and its arguments
    ret            \* what the call came to; NotCalled before the call

sched_vars == <<num_threads, sched_pc, tile_height, spawn_i, join_i, result>>

worker_vars == <<wstatus, wtile, wy, wx, wi, woutput, wrng, pix, out_of_order>>

trace_vars == <<tr_in, tr_out>>

call_vars == <<call, ret>>

vars == <<scene, camera, seeds, sched_vars, worker_vars, trace_vars, call_vars>>

NotCalled == [called |-> FALSE]

(***************************************************************************)
(* The inputs of the model: scenes, the camera, seeds, rays.               *)
(***************************************************************************)
LENS_RADIUS == 100
FOCAL_DISTANCE == 8000

Origin == Vec3(0, 0, 0)
White == Vec3(1000, 1000, 1000)
Yellow == Vec3(1000, 1000, 0)
Orange == Vec3(900, 600, 300)

\* The scenes render_scene is given: a sphere the middle rows look at over
\* one the bottom rows look at, in front of the background.
Scenes ==
    { <<Sphere(Origin, 1000, Light(Yellow)),
        Sphere(Vec3(0, -2000, 0), 1000, Diffuse(Orange, TextureNone))>>,
      <<Sphere(Origin, 1000, Metal(White, 0)),
        Sphere(Vec3(0, -2000, 0), 1000, Glass(Orange, 1500))>> }

\* main's camera, moved onto the z axis: look_at(eye, target, up, fov, ...)
\* with tan(fov / 2) = 0.5.
Camera0 ==
    look_at(Vec3(0, 0, 5000), Origin, Vec3(0, 1000, 0), 500,
            FDiv(IMAGE_WIDTH * SCALE, IMAGE_HEIGHT * SCALE), FOCAL_DISTANCE, LENS_RADIUS)

\* The streams the seeds of the worker threads determine.
SeedStreams == { <<0, 500, 900, 500, 250>>, <<700, 100, 500, 400, 600>> }

\* Scenes whose every camera ray meets a rejection loop of trace_ray: a
\* Diffuse and a rough Metal sphere around the eye.
LoopScenes ==
    { <<Sphere(Vec3(0, 0, 5000), 1000, Diffuse(Orange, TextureNone))>>,
      <<Sphere(Vec3(0, 0, 5000), 1000, Metal(White, 500))>> }

\* A stream whose every pair and triple is accepted, one whose pairs the lens
\* loop rejects, and one whose pairs the lens loop accepts and whose triples
\* the loops of trace_ray reject.
AcceptedStream == <<500, 400, 600>>

LensRejectedStream == <<900>>

BallRejectedStream == <<0>>

LoopStreams == {AcceptedStream, LensRejectedStream, BallRejectedStream}

\* The sets of streams the threads of a run may be seeded with.
LoopSeeds == { {AcceptedStream}, {AcceptedStream, BallRejectedStream}, {LensRejectedStream} }

\* The values a draw of the trace_ray call's stream may take, and the
\* stream's length.
RandVals == {0, 500, 900}
StreamLen == 3

TraceStreams == [1 .. StreamLen -> RandVals]

\* The scenes of the trace_ray call.
TraceScenes ==
    { <<>>,
      <<Sphere(Origin, 1000, Light(Yellow))>>,
      <<Sphere(Origin, 1000, MNormal)>>,
      <<Sphere(Origin, 1000, Diffuse(Orange, TextureNone))>>,
      <<Sphere(Origin, 1000, Diffuse(Orange, Checkered(White, Origin, 2000)))>>,
      <<Sphere(Origin, 1000, Metal(Orange, 500))>>,
      <<Sphere(Origin, 1000, Metal(White, 1500))>>,
      <<Sphere(Origin, 1000, Glass(White, 1500))>>,
      <<Sphere(Origin, 1000, Diffuse(White, TextureNone)),
        Sphere(Vec3(0, 0, 3000), 1000, Light(Yellow))>>,
      <<Sphere(Origin, 1000, Metal(White, 0)),
        Sphere(Vec3(0, 0, 4000), 1000, Metal(Orange, 0))>> }

\* Its rays: from in front of, between, above and inside the spheres.
TraceRays ==
    { Ray(o, d) : o \in { Vec3(0, 0, 5000), Vec3(0, 0, 2000), Vec3(0, 3000, 0), Origin },
                  d \in { Vec3(0, 0, -1000), Vec3(0, 1000, 0), Vec3(0, -1000, 0),
                          Vec3(0, 0, 2000), Vec3(0, 600, -800) } }

\* Its depths: the first, the last that is traced, the cutoff and beyond.
TraceDepths == {0, 1, MAX_DEPTH - 1, MAX_DEPTH, MAX_DEPTH + 1}

(***************************************************************************)
(* main.rs: render_tile as a thread                                        *)
(***************************************************************************)
\* The states a worker's generator can be in once seeded.
Rngs == UNION { {Rng(s, p) : p \in 0 .. (Len(s) - 1)} : s \in SeedStreams }

LoopRngs == UNION { {Rng(s, p) : p \in 0 .. (Len(s) - 1)} : s \in LoopStreams }

\* The body of the pixel loop, tabulated over what render_tile can give it
\* (f @@ <<>> is f, computed once and held as a table).
PixelTable ==
    [k \in (Scenes \X {Camera0} \X (0 .. (IMAGE_WIDTH - 1)) \X (0 .. (IMAGE_HEIGHT - 1)) \X Rngs)
            \cup (LoopScenes \X {Camera0} \X (0 .. (IMAGE_WIDTH - 1))
                      \X (0 .. (IMAGE_HEIGHT - 1)) \X LoopRngs) |->
        Pixel(k[1], k[2], k[3], k[4], k[5])] @@ <<>>

NoTile == Tile(0, 0, 0, 0)

NoRng == Rng(<<0>>, 0)

\* vec![0; size]
Zeros(size) == [k \in 1 .. size |-> 0]

\* A buffer of three bytes for each pixel.
TileSizeRGB(t) == (t.max_y - t.min_y) * (t.max_x - t.min_x) * 3

\* The size render_tile allocates for a tile.
TileSize(t) == (t.max_y - t.min_y) * (t.max_x - t.min_x) * 4

\* One generator for all the workers.
RngShared(w) == 0

\* The generator a worker's draws come from and go back to: its own thread's.
RngOf(w) == w

\* output[i + 0..3] = bytes
WriteBytes(output, i, bytes) ==
    [k \in 1 .. Len(output) |-> IF k > i /\ k <= i + 4 THEN bytes[k - i] ELSE output[k]]

\* The thread starts render_tile: thread_rng() seeds the thread's generator
\* from the operating system, the buffer is allocated, the loops are entered.
WorkerSeeded(w) ==
    /\ wstatus[w] = "spawned"
    /\ \E s \in seeds : wrng' = [wrng EXCEPT ![RngOf(w)] = Rng(s, 0)]
    /\ wstatus' = [wstatus EXCEPT ![w] = "running"]
    /\ woutput' = [woutput EXCEPT ![w] = Zeros(TileSize(wtile[w]))]
    /\ wi' = [wi EXCEPT ![w] = 0]
    /\ wy' = [wy EXCEPT ![w] = wtile[w].min_y]
    /\ wx' = [wx EXCEPT ![w] = wtile[w].min_x]
    /\ UNCHANGED <<scene, camera, seeds, sched_vars, wtile, pix, out_of_order, trace_vars, call_vars>>

\* thread_rng() panics when the operating system's entropy source fails: the
\* thread ends with no buffer.
WorkerPanic(w) ==
    /\ wstatus[w] = "spawned"
    /\ wstatus' = [wstatus EXCEPT ![w] = "panicked"]
    /\ UNCHANGED <<scene, camera, seeds, sched_vars, wtile, wy, wx, wi, woutput, wrng, pix,
                   out_of_order, trace_vars, call_vars>>

\* One round of the pixel loop: pixel (wx, wy) is sampled and its four bytes
\* written at i.  A pixel whose sampling never ends is a step never taken.  An
\* index past the buffer panics.
WorkerPixel(w) ==
    /\ wstatus[w] = "running"
    /\ wy[w] < wtile[w].max_y
    /\ wx[w] < wtile[w].max_x
    /\ \E px \in {PixelTable[<<scene, camera, wx[w], wy[w], wrng[RngOf(w)]>>]} :
       LET last == wx[w] + 1 >= wtile[w].max_x
       IN  /\ px.ok
           /\ wrng' = [wrng EXCEPT ![RngOf(w)] = px.rng]
           /\ IF wi[w] + 4 > Len(woutput[w])
              THEN /\ wstatus' = [wstatus EXCEPT ![w] = "panicked"]
                   /\ UNCHANGED <<woutput, wi, wx, wy, pix>>
              ELSE /\ woutput' = [woutput EXCEPT ![w] = WriteBytes(@, wi[w], px.v)]
                   /\ wi' = [wi EXCEPT ![w] = @ + 4]
                   /\ wx' = [wx EXCEPT ![w] = IF last THEN wtile[w].min_x ELSE @ + 1]
                   /\ wy' = [wy EXCEPT ![w] = IF last THEN @ + 1 ELSE @]
                   /\ pix' = [pix EXCEPT ![wy[w] * IMAGE_WIDTH + wx[w]] = px.v]
                   /\ UNCHANGED wstatus
    /\ UNCHANGED <<scene, camera, seeds, sched_vars, wtile, out_of_order, trace_vars, call_vars>>

\* The loops are over: render_tile returns output and the thread ends.
WorkerReturn(w) ==
    /\ wstatus[w] = "running"
    /\ wy[w] >= wtile[w].max_y \/ wx[w] >= wtile[w].max_x
    /\ wstatus' = [wstatus EXCEPT ![w] = "finished"]
    /\ out_of_order' = (out_of_order \/ \E v \in Workers :
                           v < w /\ wstatus[v] \in {"spawned", "running"})
    /\ UNCHANGED <<scene, camera, seeds, sched_vars, wtile, wy, wx, wi, woutput, wrng, pix,
                   trace_vars, call_vars>>

WorkerStep(w) ==
    \/ WorkerSeeded(w)
    \/ WorkerPanic(w)
    \/ WorkerPixel(w)
    \/ WorkerReturn(w)

(***************************************************************************)
(* main.rs: render_scene                                                   *)
(***************************************************************************)
\* Every worker given the first tile.
TileOfFirst(i, th) == Tile(0, 0, IMAGE_WIDTH, th)

\* Every tile begun at the top row of the image.
TileOfFromTop(i, th) == Tile(0, 0, IMAGE_WIDTH, (i + 1) * th)

\* The tile worker i is given.
TileOf(i, th) == Tile(0, i * th, IMAGE_WIDTH, (i + 1) * th)

\* The tile put in front of the result.
PrependTile(res, tile) == tile \o res

\* result.append(&mut tile)
AppendTile(res, tile) == res \o tile

\* JoinHandle::join returns once the thread has ended.
Ended(status) == status \in {"finished", "panicked"}

\* An unwrap that takes the Err for a buffer.
UnwrapAlways(status) == TRUE

\* Result::unwrap succeeds on the Ok of a thread that returned, and panics on
\* the Err of one that panicked.
UnwrapOk(status) == status = "finished"

\* A spawn loop left after its first round.
SpawnDoneEarly(i, n) == i >= 1

\* for i in 0..num_threads: the loop is over once i has reached num_threads.
SpawnDone(i, n) == i >= n

\* A tile height rounded up, never zero.
TileHeightRoundedUp(n) == (IMAGE_HEIGHT + n - 1) \div n

\* IMAGE_HEIGHT / num_threads in u32, for num_threads > 0.
TileHeight(n) == IMAGE_HEIGHT \div n

\* let tile_height = IMAGE_HEIGHT / num_threads: a division by zero panics.
SchedStart ==
    /\ sched_pc = "start"
    /\ IF num_threads = 0
       THEN sched_pc' = "panicked" /\ UNCHANGED tile_height
       ELSE /\ tile_height' = TileHeight(num_threads)
            /\ sched_pc' = "spawn"
    /\ UNCHANGED <<scene, camera, seeds, num_threads, spawn_i, join_i, result, worker_vars,
                   trace_vars, call_vars>>

\* One round of the spawn loop; after the last, result is created and the
\* join loop entered.
SchedSpawn ==
    /\ sched_pc = "spawn"
    /\ spawn_i < num_threads
    /\ wstatus' = [wstatus EXCEPT ![spawn_i] = "spawned"]
    /\ wtile' = [wtile EXCEPT ![spawn_i] = TileOf(spawn_i, tile_height)]
    /\ spawn_i' = spawn_i + 1
    /\ sched_pc' = IF SpawnDone(spawn_i + 1, num_threads) THEN "join" ELSE "spawn"
    /\ UNCHANGED <<scene, camera, seeds, num_threads, tile_height, join_i, result, wy, wx, wi,
                   woutput, wrng, pix, out_of_order, trace_vars, call_vars>>

\* One round of the join loop on a thread that returned its buffer; after
\* the last, render_scene returns result.
SchedJoin ==
    /\ sched_pc = "join"
    /\ join_i < num_threads
    /\ Ended(wstatus[join_i])
    /\ UnwrapOk(wstatus[join_i])
    /\ result' = AppendTile(result, woutput[join_i])
    /\ join_i' = join_i + 1
    /\ sched_pc' = IF join_i + 1 < num_threads THEN "join" ELSE "returned"
    /\ UNCHANGED <<scene, camera, seeds, num_threads, tile_height, spawn_i, worker_vars,
                   trace_vars, call_vars>>

\* The join loop on a thread that panicked: unwrap panics.
SchedJoinPanic ==
    /\ sched_pc = "join"
    /\ join_i < num_threads
    /\ Ended(wstatus[join_i])
    /\ ~UnwrapOk(wstatus[join_i])
    /\ sched_pc' = "panicked"
    /\ UNCHANGED <<scene, camera, seeds, num_threads, tile_height, spawn_i, join_i, result,
                   worker_vars, trace_vars, call_vars>>

(***************************************************************************)
(* Spec: one call of render_scene.                                         *)
(***************************************************************************)
WorkersIdle ==
    /\ wstatus = [w \in Workers |-> "unspawned"]
    /\ wtile = [w \in Workers |-> NoTile]
    /\ wy = [w \in Workers |-> 0]
    /\ wx = [w \in Workers |-> 0]
    /\ wi = [w \in Workers |-> 0]
    /\ woutput = [w \in Workers |-> <<>>]
    /\ wrng = [w \in Workers |-> NoRng]
    /\ pix = [k \in 0 .. (IMAGE_WIDTH * IMAGE_HEIGHT - 1) |-> <<>>]
    /\ out_of_order = FALSE

TraceIdle ==
    /\ tr_in = NotCalled
    /\ tr_out = NotCalled

CallIdle ==
    /\ call = NotCalled
    /\ ret = NotCalled

Init ==
    /\ scene \in Scenes
    /\ camera = Camera0
    /\ seeds = SeedStreams
    /\ num_threads \in 0 .. MaxThreads
    /\ sched_pc = "start"
    /\ tile_height = 0
    /\ spawn_i = 0
    /\ join_i = 0
    /\ result = <<>>
    /\ WorkersIdle
    /\ TraceIdle
    /\ CallIdle

Next ==
    \/ SchedStart
    \/ SchedSpawn
    \/ SchedJoin
    \/ SchedJoinPanic
    \/ \E w \in Workers : WorkerStep(w)

Spec == Init /\ [][Next]_vars

\* render_scene's thread and every spawned thread are scheduled again and
\* again by the operating system: each takes its next step if it has one.
SpecFair ==
    /\ Spec
    /\ WF_vars(SchedStart \/ SchedSpawn \/ SchedJoin \/ SchedJoinPanic)
    /\ \A w \in Workers : WF_vars(WorkerStep(w))

(***************************************************************************)
(* SpecLoop: one call of render_scene on a scene whose every ray meets a   *)
(* rejection loop, its threads seeded with streams that do or do not bear  *)
(* accepted samples; the threads are scheduled as in SpecFair.             *)
(***************************************************************************)
InitLoop ==
    /\ scene \in LoopScenes
    /\ camera = Camera0
    /\ seeds \in LoopSeeds
    /\ num_threads \in 0 .. MaxThreads
    /\ sched_pc = "start"
    /\ tile_height = 0
    /\ spawn_i = 0
    /\ join_i = 0
    /\ result = <<>>
    /\ WorkersIdle
    /\ TraceIdle
    /\ CallIdle

SpecLoop ==
    /\ InitLoop
    /\ [][Next]_vars
    /\ WF_vars(SchedStart \/ SchedSpawn \/ SchedJoin \/ SchedJoinPanic)
    /\ \A w \in Workers : WF_vars(WorkerStep(w))

(***************************************************************************)
(* SpecTile: render_tile run twice on the same tile, each run in a thread  *)
(* of its own (workers 0 and 1), with no scheduler.                        *)
(***************************************************************************)
\* The tiles of the two runs: the whole image, its first row, its last rows.
TileInputs ==
    { Tile(0, 0, IMAGE_WIDTH, IMAGE_HEIGHT),
      Tile(0, 0, IMAGE_WIDTH, 1),
      Tile(0, 1, IMAGE_WIDTH, IMAGE_HEIGHT) }

SchedIdle ==
    /\ num_threads = 0
    /\ sched_pc = "idle"
    /\ tile_height = 0
    /\ spawn_i = 0
    /\ join_i = 0
    /\ result = <<>>

InitTile ==
    /\ scene \in Scenes
    /\ camera = Camera0
    /\ seeds = SeedStreams
    /\ SchedIdle
    /\ wstatus = [w \in Workers |-> IF w \in {0, 1} THEN "spawned" ELSE "unspawned"]
    /\ \E t \in TileInputs : wtile = [w \in Workers |-> IF w \in {0, 1} THEN t ELSE NoTile]
    /\ wy = [w \in Workers |-> 0]
    /\ wx = [w \in Workers |-> 0]
    /\ wi = [w \in Workers |-> 0]
    /\ woutput = [w \in Workers |-> <<>>]
    /\ wrng = [w \in Workers |-> NoRng]
    /\ pix = [k \in 0 .. (IMAGE_WIDTH * IMAGE_HEIGHT - 1) |-> <<>>]
    /\ out_of_order = FALSE
    /\ TraceIdle
    /\ CallIdle

NextTile == \E w \in {0, 1} : WorkerStep(w)

SpecTile == InitTile /\ [][NextTile]_vars

(***************************************************************************)
(* SpecTrace: one call of trace_ray.                                       *)
(***************************************************************************)
InitTrace ==
    /\ scene = <<>>
    /\ camera = Camera0
    /\ seeds = SeedStreams
    /\ SchedIdle
    /\ WorkersIdle
    /\ tr_in \in [scene : TraceScenes, ray : TraceRays,
                  rng : {Rng(s, 0) : s \in TraceStreams}, depth : TraceDepths]
    /\ tr_out = NotCalled
    /\ CallIdle

TraceCall ==
    /\ tr_out = NotCalled
    /\ tr_out' = [called |-> TRUE,
                  r |-> trace_ray(tr_in.scene, tr_in.ray, tr_in.rng, tr_in.depth)]
    /\ UNCHANGED <<scene, camera, seeds, sched_vars, worker_vars, tr_in, call_vars>>

NextTrace == TraceCall

SpecTrace == InitTrace /\ [][NextTrace]_vars

(***************************************************************************)
(* SpecFn: one call of one of the program's functions.                     *)
(***************************************************************************)
\* The focal distances and lens radii of the cameras generate_ray is called
\* on, the image-plane positions and the streams it is called with.
FocalDistances == {-2000, 0, 1000, FOCAL_DISTANCE}

LensRadii == {0, LENS_RADIUS}

FnCameras ==
    { look_at(Vec3(0, 0, 5000), Origin, Vec3(0, 1000, 0), 500, SCALE, fd, lr) :
          fd \in FocalDistances, lr \in LensRadii }

ImagePlane == {-500, -250, 0, 250}

GenerateRayCalls ==
    [fn : {"generate_ray"}, cam : FnCameras, u : ImagePlane, v : ImagePlane,
     rng : {Rng(s, 0) : s \in TraceStreams}]

\* The spheres and rays Sphere::hit and Scene::hit are called with: rays that
\* start before, beside, inside and behind the spheres, some of them tangent
\* to a sphere, and directions that are not all of unit length.
SphereA == Sphere(Origin, 1000, Diffuse(Orange, TextureNone))

SphereB == Sphere(Origin, 1000, Light(Yellow))

SphereC == Sphere(Vec3(0, 0, 3000), 1000, Metal(White, 0))

SphereD == Sphere(Vec3(0, -3000, 0), 2000, Glass(Orange, 1500))

SphereE == Sphere(Vec3(0, 0, 3000), 1000, Light(White))

FnRays ==
    { Ray(o, d) :
          o \in { Vec3(0, 0, 5000), Vec3(1000, 0, 5000), Vec3(2000, 0, 5000), Origin,
                  Vec3(0, 0, -5000) },
          d \in { Vec3(0, 0, -1000), Vec3(0, 0, 1000), Vec3(0, -600, -800), Vec3(0, 0, -2000) } }

\* Scenes of none to three of the spheres: coincident spheres in both orders,
\* a nearer sphere before and after a farther one.
FnScenes ==
    { <<>>, <<SphereA>>, <<SphereA, SphereB>>, <<SphereB, SphereA>>, <<SphereA, SphereC>>,
      <<SphereC, SphereA>>, <<SphereD, SphereA, SphereC>>, <<SphereA, SphereD, SphereB>>,
      <<SphereA, SphereC, SphereE>> }

SceneHitCalls == [fn : {"Scene::hit"}, spheres : FnScenes, ray : FnRays]

\* The averaged radiances a pixel's bytes are computed from: every channel
\* within [0, 1].
Radiances == {0, 10, 250, 500, 640, SCALE}

\* Averaged radiances above 1, which nothing before the conversion clamps.
BrightRadiances == {1500, 2000, 4000}

PixelBytesCalls ==
    [fn : {"PixelBytes"},
     color : {Vec3(x, y, z) : x \in Radiances, y \in Radiances, z \in Radiances}
                \cup {Vec3(x, y, z) : x \in BrightRadiances, y \in {500, 2000}, z \in {0, 4000}}]

\* The boxes and points of the bbox operators: the box and point of the
\* tests (equal on all three axes) and ones that differ from axis to axis.
FnPoints == {Vec3(x, y, z) : x \in {-1000, 2000}, y \in {-1000, 2000}, z \in {-1000, 0, 2000}}

FnBoxes ==
    {new_from_points(Vec3(-1000, -1000, -1000), Vec3(750, 750, 750))}
        \cup {new_from_points(p1, p2) : p1 \in FnPoints, p2 \in {Vec3(0, 500, 1000), Vec3(500, 0, -2000)}}

AddAssignPointCalls == [fn : {"bbox += &p"}, bbox : FnBoxes, p : FnPoints \cup {Vec3(2000, 2000, 2000)}]

AddAssignBoxCalls == [fn : {"bbox += &other"}, bbox : FnBoxes, other : FnBoxes]

\* The matrices inverse is called with: the diagonal ones over 0, 1 and 2
\* (the singular matrix of the test among them), a singular matrix without a
\* zero entry on its diagonal, and a translation; each under both kinds of
\* build.
FnMatrices ==
    { Mat4(<<a, 0, 0, 0>>, <<0, b, 0, 0>>, <<0, 0, c, 0>>, <<0, 0, 0, d>>) :
          a \in {0, 1000, 2000}, b \in {0, 1000, 2000}, c \in {1000, 2000}, d \in {0, 1000} }
        \cup { Mat4(<<1000, 2000, 0, 0>>, <<2000, 4000, 0, 0>>, <<0, 0, 1000, 0>>, <<0, 0, 0, 1000>>),
               Mat4(<<1000, 0, 0, 3000>>, <<0, 1000, 0, -2000>>, <<0, 0, 1000, 1000>>, <<0, 0, 0, 1000>>) }

InverseCalls == [fn : {"inverse"}, m : FnMatrices, debug_assertions : BOOLEAN]

\* The vectors reflect is called with.  The normals are the unit vectors
\* whose components, and whose products with the incident vectors, the
\* arithmetic represents without rounding, and one vector of length 2.
FnNormals ==
    { Vec3(1000, 0, 0), Vec3(0, -1000, 0), Vec3(0, 0, 1000), Vec3(600, 800, 0),
      Vec3(0, -600, 800), Vec3(-800, 0, -600), Vec3(0, 0, 2000) }

FnIncidents ==
    {Vec3(x, y, z) : x \in {-2000, 0, 1000}, y \in {-1000, 0, 3000}, z \in {-1000, 0, 2000}}

ReflectCalls == [fn : {"reflect"}, v : FnIncidents, n : FnNormals]

\* The Glass hits the ray choice of trace_ray is made for: rays that meet
\* the surface from outside and from inside, head on and at a slant, with
\* the draws of the model's streams.
GlassCalls ==
    [fn : {"Glass"},
     ray : {Ray(Vec3(0, 0, 2000), d) :
                d \in { Vec3(0, 0, -1000), Vec3(0, 600, -800), Vec3(800, 600, 0),
                        Vec3(0, 0, 2000), Vec3(0, 960, 280) }},
     hit : {Hit(Vec3(0, 0, 1000), n, SCALE, <<0, 0>>, Glass(Orange, 1500)) :
                n \in {Vec3(0, 0, 1000), Vec3(0, 1000, 0), Vec3(0, -600, 800)}},
     rand : RandVals \cup {30}]

\* Streams for the Metal branch: one whose first triple lies between the
\* roughness and the unit ball, one accepted at once, one never accepted for
\* roughness 0.5, and one whose first triple lies outside the unit ball.
MetalStreams ==
    { <<900, 500, 500, 500, 700, 500>>, <<500, 400, 600>>, <<900, 500, 500>>,
      <<0, 0, 0, 500, 600, 500>> }

\* The Metal hits the continued ray of trace_ray is computed for: mirrors
\* (roughness zero and below) and rough metals.
MetalCalls ==
    [fn : {"Metal"},
     ray : {Ray(Vec3(0, 0, 2000), d) : d \in {Vec3(0, 0, -1000), Vec3(0, 600, -800)}},
     hit : {Hit(Vec3(0, 0, 1000), n, SCALE, <<0, 0>>, Metal(Orange, r)) :
                n \in {Vec3(0, 0, 1000), Vec3(0, 1000, 0)}, r \in {-500, 0, 500, 1000}},
     rng : {Rng(st, 0) : st \in MetalStreams}]

\* The pixels whose radiance render_tile computes: every pixel of the image,
\* in front of the background alone and of the scenes of render_scene.
PixelCalls ==
    [fn : {"pixel"}, scn : {<<>>} \cup Scenes, cam : {Camera0},
     x : 0 .. (IMAGE_WIDTH - 1), y : 0 .. (IMAGE_HEIGHT - 1), rng : Rngs]

SphereHitCalls == [fn : {"Sphere::hit"}, sphere : {SphereA, SphereB, SphereC, SphereD}, ray : FnRays]

\* What a call comes to.
Returned(r) == [called |-> TRUE, r |-> r]

CallGenerateRay ==
    /\ call.fn = "generate_ray"
    /\ ret = NotCalled
    /\ ret' = Returned(generate_ray(call.cam, call.u, call.v, call.rng))
    /\ UNCHANGED <<scene, camera, seeds, sched_vars, worker_vars, trace_vars, call>>

CallSphereHit ==
    /\ call.fn = "Sphere::hit"
    /\ ret = NotCalled
    /\ ret' = Returned(SphereHit(call.sphere, call.ray))
    /\ UNCHANGED <<scene, camera, seeds, sched_vars, worker_vars, trace_vars, call>>

CallSceneHit ==
    /\ call.fn = "Scene::hit"
    /\ ret = NotCalled
    /\ ret' = Returned(SceneHit(call.spheres, call.ray))
    /\ UNCHANGED <<scene, camera, seeds, sched_vars, worker_vars, trace_vars, call>>

\* The conversion of a pixel's averaged radiance to bytes in render_tile.
CallPixelBytes ==
    /\ call.fn = "PixelBytes"
    /\ ret = NotCalled
    /\ ret' = Returned(PixelBytes(call.color))
    /\ UNCHANGED <<scene, camera, seeds, sched_vars, worker_vars, trace_vars, call>>

CallAddAssignPoint ==
    /\ call.fn = "bbox += &p"
    /\ ret = NotCalled
    /\ ret' = Returned(AddAssignPoint(call.bbox, call.p))
    /\ UNCHANGED <<scene, camera, seeds, sched_vars, worker_vars, trace_vars, call>>

CallAddAssignBox ==
    /\ call.fn = "bbox += &other"
    /\ ret = NotCalled
    /\ ret' = Returned(AddAssignBox(call.bbox, call.other))
    /\ UNCHANGED <<scene, camera, seeds, sched_vars, worker_vars, trace_vars, call>>

CallInverse ==
    /\ call.fn = "inverse"
    /\ ret = NotCalled
    /\ ret' = Returned(inverse(call.m, call.debug_assertions))
    /\ UNCHANGED <<scene, camera, seeds, sched_vars, worker_vars, trace_vars, call>>

CallReflect ==
    /\ call.fn = "reflect"
    /\ ret = NotCalled
    /\ ret' = Returned(reflect(call.v, call.n))
    /\ UNCHANGED <<scene, camera, seeds, sched_vars, worker_vars, trace_vars, call>>

\* The choice of the ray a Glass hit continues along.
CallGlass ==
    /\ call.fn = "Glass"
    /\ ret = NotCalled
    /\ ret' = Returned(GlassRay(call.ray, call.hit, call.hit.m.ior, call.rand))
    /\ UNCHANGED <<scene, camera, seeds, sched_vars, worker_vars, trace_vars, call>>

\* The ray a Metal hit continues along.
CallMetal ==
    /\ call.fn = "Metal"
    /\ ret = NotCalled
    /\ ret' = Returned(MetalRay(call.ray, call.hit, call.hit.m.roughness, call.rng))
    /\ UNCHANGED <<scene, camera, seeds, sched_vars, worker_vars, trace_vars, call>>

\* The sample loop of render_tile for one pixel, and the averaging.
CallPixel ==
    /\ call.fn = "pixel"
    /\ ret = NotCalled
    /\ ret' = Returned(PixelColor(call.scn, call.cam, call.x, call.y, call.rng))
    /\ UNCHANGED <<scene, camera, seeds, sched_vars, worker_vars, trace_vars, call>>

InitFn ==
    /\ scene = <<>>
    /\ camera = Camera0
    /\ seeds = SeedStreams
    /\ SchedIdle
    /\ WorkersIdle
    /\ TraceIdle
    /\ call \in GenerateRayCalls \cup SphereHitCalls \cup SceneHitCalls \cup PixelBytesCalls
                  \cup AddAssignPointCalls \cup AddAssignBoxCalls \cup InverseCalls
                  \cup ReflectCalls \cup GlassCalls \cup MetalCalls
                  \cup PixelCalls
    /\ ret = NotCalled

NextFn ==
    \/ CallGenerateRay
    \/ CallSphereHit
    \/ CallSceneHit
    \/ CallPixelBytes
    \/ CallAddAssignPoint
    \/ CallAddAssignBox
    \/ CallInverse
    \/ CallReflect
    \/ CallGlass
    \/ CallMetal
    \/ CallPixel

SpecFn == InitFn /\ [][NextFn]_vars

(***************************************************************************)
(* Properties of render_scene (Spec).                                      *)
(***************************************************************************)
\* The buffers of workers 0 .. k-1, one after the other in index order.
RECURSIVE ConcatTiles(_)
ConcatTiles(k) == IF k = 0 THEN <<>> ELSE ConcatTiles(k - 1) \o woutput[k - 1]

\* The workers render_scene was asked for.
Asked == {w \in Workers : w < num_threads}

\* C1: at every point of the join loop, and in the buffer render_scene
\* returns, result is the concatenation of the buffers of the tiles joined so
\* far in tile-index order (tile 0 first), in whatever order the workers
\* finished.
C1_ConcatInTileOrder ==
    /\ result = ConcatTiles(join_i)
    /\ sched_pc = "returned" => result = ConcatTiles(num_threads)

\* C1 witness: render_scene has returned the buffer of two or more tiles of
\* different content, after a worker finished before one of lower index.
C1_Witness ==
    /\ sched_pc = "returned"
    /\ num_threads >= 2
    /\ out_of_order
    /\ woutput[0] # woutput[1]
    /\ woutput[0] # <<>>

\* C2 (as stated): for 1 <= N <= IMAGE_HEIGHT the last tile ends at
\* IMAGE_HEIGHT and the returned buffer has IMAGE_WIDTH * IMAGE_HEIGHT * 4
\* bytes.  Violated when N does not divide IMAGE_HEIGHT.
C2_CoversEveryRow ==
    (sched_pc = "returned" /\ num_threads >= 1 /\ num_threads <= IMAGE_HEIGHT) =>
        /\ wtile[num_threads - 1].max_y = IMAGE_HEIGHT
        /\ Len(result) = IMAGE_WIDTH * IMAGE_HEIGHT * 4

\* C3: exactly the workers 0 .. spawn_i - 1 have been spawned, never more
\* than num_threads, each on the tile of its index; the join loop is entered
\* only with all num_threads spawned; and a buffer is returned only with
\* every one of the num_threads workers finished, none still running.
C3_SpawnAllThenJoinAll ==
    /\ spawn_i <= num_threads
    /\ \A w \in Workers : (wstatus[w] # "unspawned") <=> (w < spawn_i)
    /\ \A w \in Workers : w < spawn_i => wtile[w] = TileOf(w, tile_height)
    /\ (sched_pc \in {"join", "returned"} \/ join_i > 0) => spawn_i = num_threads
    /\ sched_pc = "returned" =>
           /\ join_i = num_threads
           /\ \A w \in Asked : wstatus[w] = "finished"
           /\ \A w \in Workers : wstatus[w] \notin {"spawned", "running"}

\* C3 witness: render_scene has returned with two workers spawned and joined.
C3_Witness ==
    /\ sched_pc = "returned"
    /\ num_threads = 2
    /\ spawn_i = 2
    /\ join_i = 2

\* What worker w alone advances: its status and its position in its loops.
Progress(w) == <<wstatus[w], wi[w], wx[w], wy[w]>>

\* C4: no step changes the scene or the camera, and a step that changes the
\* output buffer or the generator of worker w is a step of worker w alone: w
\* was spawned or running and advances, and no other worker's buffer,
\* generator, status or loop position changes.
C4_NoSharedMutableState ==
    [][ /\ scene' = scene
        /\ camera' = camera
        /\ \A w \in Workers :
               (woutput'[w] # woutput[w] \/ wrng'[w] # wrng[w]) =>
                   /\ wstatus[w] \in {"spawned", "running"}
                   /\ Progress(w)' # Progress(w)
                   /\ \A v \in Workers \ {w} :
                          /\ woutput'[v] = woutput[v]
                          /\ wrng'[v] = wrng[v]
                          /\ Progress(v)' = Progress(v) ]_vars

\* C4 witness: two workers are running at once, each with pixels written to
\* its own buffer and draws taken from its own generator.
C4_Witness ==
    \E v, w \in Workers :
        /\ v # w
        /\ wstatus[v] = "running" /\ wstatus[w] = "running"
        /\ wi[v] > 0 /\ wi[w] > 0
        /\ wi[v] < Len(woutput[v])
        /\ wrng[v] # wrng[w]

\* C5: once a worker render_scene asked for has panicked, render_scene
\* panics; it never returns a buffer when one has panicked; when it panics
\* over a worker, it is at the join of that worker, a panicked one; its panic
\* is final, nothing is appended after it; and a panicked worker stays
\* panicked on the tile it was given (no retry).
C5_PanicPropagates ==
    /\ (\E w \in Asked : wstatus[w] = "panicked") ~> (sched_pc = "panicked")
    /\ [](sched_pc = "returned" => \A w \in Asked : wstatus[w] # "panicked")
    /\ []((sched_pc = "panicked" /\ num_threads > 0) => wstatus[join_i] = "panicked")
    /\ [][ /\ sched_pc = "panicked" => (sched_pc' = "panicked" /\ result' = result)
           /\ \A w \in Workers :
                  wstatus[w] = "panicked" =>
                      (wstatus'[w] = "panicked" /\ wtile'[w] = wtile[w]) ]_vars

\* C5 witness: render_scene has panicked at the join of a panicked worker
\* after it had joined another and appended its buffer.
C5_Witness ==
    /\ sched_pc = "panicked"
    /\ join_i >= 1
    /\ wstatus[join_i] = "panicked"
    /\ result # <<>>

\* C9: when num_threads divides IMAGE_HEIGHT, the returned buffer has
\* IMAGE_WIDTH * IMAGE_HEIGHT * 4 bytes and the four bytes computed for pixel
\* (x, y) are at offsets 4 * (y * IMAGE_WIDTH + x) .. + 3, for one tile
\* (num_threads = 1) as for several: the buffers agree byte for byte.
C9_TilesReassemble ==
    (sched_pc = "returned" /\ num_threads >= 1 /\ IMAGE_HEIGHT % num_threads = 0) =>
        /\ Len(result) = IMAGE_WIDTH * IMAGE_HEIGHT * 4
        /\ \A y \in 0 .. (IMAGE_HEIGHT - 1) : \A x \in 0 .. (IMAGE_WIDTH - 1) :
               /\ Len(pix[y * IMAGE_WIDTH + x]) = 4
               /\ \A b \in 1 .. 4 :
                      result[4 * (y * IMAGE_WIDTH + x) + b] = pix[y * IMAGE_WIDTH + x][b]

\* C9 witness: render_scene has returned the buffer of several tiles, one
\* image row each, whose rows differ.
C9_Witness ==
    /\ sched_pc = "returned"
    /\ num_threads = IMAGE_HEIGHT
    /\ num_threads > 1
    /\ tile_height = 1
    /\ pix[0] # pix[IMAGE_WIDTH]
    /\ Len(result) = IMAGE_WIDTH * IMAGE_HEIGHT * 4

(***************************************************************************)
(* Properties of trace_ray (SpecTrace).                                    *)
(***************************************************************************)
\* The nearest hit of the call's ray in the call's scene.
CallHit == SceneHit(tr_in.scene, tr_in.ray)

\* C6: a call of trace_ray with depth >= MAX_DEPTH returns (0,0,0) whatever
\* the scene, the ray and the material in its way, with the generator where
\* it was (no draw), no Scene::hit and no invocation besides the call itself.
C6_DepthCutoffBlack ==
    (tr_out.called /\ tr_in.depth >= MAX_DEPTH) =>
        tr_out.r = Done(Vec3(0, 0, 0), tr_in.rng, 0, 0, 1)

\* C6 witness: trace_ray was called at depth MAX_DEPTH with a ray that hits
\* a sphere of the scene, and returned black.
C6_Witness ==
    /\ tr_out.called
    /\ tr_in.depth = MAX_DEPTH
    /\ CallHit.some
    /\ tr_out.r.v = Vec3(0, 0, 0)

\* C7: below MAX_DEPTH, a call whose nearest hit has material Light(color)
\* returns exactly color with no recursive call and no draw; and of the calls
\* that hit a sphere and return, those with a single invocation of trace_ray
\* are exactly those whose hit material is Light or Normal.
C7_LightNoRecursion ==
    (tr_out.called /\ tr_in.depth < MAX_DEPTH /\ CallHit.some) =>
        /\ CallHit.m.kind = "Light" =>
               tr_out.r = Done(CallHit.m.color, tr_in.rng, 0, 1, 1)
        /\ tr_out.r.ok =>
               ((tr_out.r.ncall = 1) <=> (CallHit.m.kind \in {"Light", "Normal"}))

\* C7 witness: trace_ray was called below MAX_DEPTH with a ray whose nearest
\* hit is the Light((1,1,0)) sphere, and returned (1,1,0).
C7_Witness ==
    /\ tr_out.called
    /\ tr_in.depth < MAX_DEPTH
    /\ CallHit.some
    /\ CallHit.m.kind = "Light"
    /\ tr_out.r.ok
    /\ tr_out.r.v = Yellow
    /\ tr_out.r.ncall = 1

\* The case of C8: a call below MAX_DEPTH in the empty scene with a ray of
\* direction (0,1,0).
UpInEmptyScene ==
    /\ tr_out.called
    /\ tr_in.scene = <<>>
    /\ tr_in.ray.d = Vec3(0, SCALE, 0)
    /\ tr_in.depth < MAX_DEPTH

\* C8 (as stated): in the empty scene a ray of direction (0,1,0) traced below
\* MAX_DEPTH returns (1,1,1).  Violated: t = 1 selects (0.5,0.7,0.9).
C8_UpIsWhite == UpInEmptyScene => tr_out.r.v = Vec3(SCALE, SCALE, SCALE)

\* C8 (amended): in the empty scene a ray of direction (0,1,0) traced below
\* MAX_DEPTH returns (0.5,0.7,0.9), the colour the interpolant t = 1 selects,
\* with no draw and no recursive call.
C8_UpIsSkyBlue ==
    UpInEmptyScene => tr_out.r = Done(Vec3(500, 700, 900), tr_in.rng, 0, 1, 1)

\* C8 witness: such a call has returned, from an origin off the coordinate
\* origin.
C8_Witness ==
    /\ UpInEmptyScene
    /\ tr_in.ray.o # Origin
    /\ tr_out.r.ok
    /\ tr_out.r.v.z = 900

(***************************************************************************)
(* Properties of render_tile (SpecTile).                                   *)
(***************************************************************************)
\* C10 (as stated): two runs of render_tile on the same tile of the same
\* scene produce the same output buffer.  Violated: each run takes its
\* stream from thread_rng(), which nothing in render_tile can seed.
C10_RunsAgree ==
    (wstatus[0] = "finished" /\ wstatus[1] = "finished" /\ wtile[0] = wtile[1]) =>
        woutput[0] = woutput[1]

(***************************************************************************)
(* Properties of the functions (SpecFn).                                   *)
(***************************************************************************)
\* A generate_ray call on a camera of lens radius 0 has been made.
PinholeCall == ret.called /\ call.fn = "generate_ray" /\ call.cam.lens_radius = 0

\* The pinhole ray for (u, v): from the eye towards the viewport point.
PinholeRay(cam, u, v) ==
    Ray(cam.origin,
        normalize(VSub(VAdd(VAdd(cam.target, VScale(FMul(u, cam.viewport_width), cam.u_axis)),
                            VScale(FMul(v, cam.viewport_height), cam.v_axis)),
                       cam.origin)))

\* Two directions equal up to the rounding of one more normalization.
SameDirection(d1, d2) ==
    /\ d1 # NaNVec /\ d2 # NaNVec
    /\ Abs(d1.x - d2.x) <= 2 /\ Abs(d1.y - d2.y) <= 2 /\ Abs(d1.z - d2.z) <= 2

\* The ray the call returns is the one it returns with a stream of zeros, and
\* it is the pinhole ray.
IsPinholeRay ==
    /\ ret.r.ok =>
           /\ ret.r.v = generate_ray(call.cam, call.u, call.v, Rng(<<0>>, 0)).v
           /\ ret.r.v.o = call.cam.origin
           /\ SameDirection(ret.r.v.d, PinholeRay(call.cam, call.u, call.v).d)

\* C11 (as stated): with lens_radius = 0, generate_ray returns the pinhole
\* ray whatever the stream, for every focal_distance.  Violated for
\* focal_distance <= 0.
C11_PinholeAnyFocal == PinholeCall => IsPinholeRay

\* C11 (amended): with lens_radius = 0 and focal_distance > 0, whatever the
\* stream yields, the ray generate_ray returns is the same (the one returned
\* with a stream of zeros), its origin is the eye and its direction the
\* pinhole direction up to rounding; the lens loop still draws from the stream.
C11_PinholePositiveFocal ==
    (PinholeCall /\ call.cam.focal_distance > 0) =>
        /\ IsPinholeRay
        /\ ret.r.ok => ret.r.ndraw >= 2

\* C11 witness: such a call has returned, off the axis, after the lens loop
\* rejected its first pair.
C11_Witness ==
    /\ PinholeCall
    /\ call.cam.focal_distance > 0
    /\ call.u # 0 /\ call.v # 0
    /\ ret.r.ok
    /\ ret.r.ndraw > 2
    /\ ret.r.v.d.x # 0

\* A Sphere::hit call has been made.
SphereHitCall == ret.called /\ call.fn = "Sphere::hit"

\* The coefficients of the quadratic a ray makes with a sphere, its
\* discriminant b * b - 4 * a * c, and its roots.
QuadA(ray) == length_squared(ray.d)

QuadB(s, ray) == 2 * dot(VSub(ray.o, s.c), ray.d)

QuadC(s, ray) == length_squared(VSub(ray.o, s.c)) - FMul(s.r, s.r)

Discriminant(s, ray) == FMul(QuadB(s, ray), QuadB(s, ray)) - FMul(4 * QuadA(ray), QuadC(s, ray))

Root1(s, ray) == FDiv(-QuadB(s, ray) - FSqrt(Discriminant(s, ray)), 2 * QuadA(ray))

Root2(s, ray) == FDiv(-QuadB(s, ray) + FSqrt(Discriminant(s, ray)), 2 * QuadA(ray))

\* The call is of a ray tangent to the sphere, its one root positive.
TangentCall ==
    /\ SphereHitCall
    /\ Discriminant(call.sphere, call.ray) = 0
    /\ Root1(call.sphere, call.ray) > 0

\* C12 (as stated): a tangent ray (discriminant zero, root positive) is hit
\* at exactly that root, and a negative discriminant is no hit.  Violated by
\* every tangent ray.
C12_TangentHits ==
    /\ TangentCall => (ret.r.some /\ ret.r.t = Root1(call.sphere, call.ray))
    /\ (SphereHitCall /\ Discriminant(call.sphere, call.ray) < 0) => ~ret.r.some

\* C12 (amended): a tangent ray (discriminant zero) is no hit, whatever its
\* root, and a negative discriminant is no hit.
C12_TangentMisses ==
    /\ TangentCall => ~ret.r.some
    /\ (SphereHitCall /\ Discriminant(call.sphere, call.ray) < 0) => ~ret.r.some

\* C12 witness: Sphere::hit has returned for a tangent ray of positive root.
C12_Witness == TangentCall /\ ~ret.r.some /\ QuadA(call.ray) # SCALE

\* A Scene::hit call has been made.
SceneHitCall == ret.called /\ call.fn = "Scene::hit"

\* The spheres of the call that the ray hits, and the t of each.
SpheresHit == {k \in 1 .. Len(call.spheres) : SphereHit(call.spheres[k], call.ray).some}

THit(k) == SphereHit(call.spheres[k], call.ray).t

\* The first sphere, in scene order, among those hit at the smallest t.
Nearest ==
    CHOOSE k \in SpheresHit :
        \A j \in SpheresHit : THit(k) < THit(j) \/ (THit(k) = THit(j) /\ k <= j)

\* C13: Scene::hit returns no hit exactly when no sphere of the scene is hit;
\* otherwise it returns the hit of smallest t over all the spheres, wherever
\* in the scene its sphere is, and of the first such sphere in scene order
\* when several are hit at that t.
C13_NearestOfAll ==
    SceneHitCall =>
        IF SpheresHit = {} THEN ret.r = NoHit
        ELSE ret.r = SphereHit(call.spheres[Nearest], call.ray)

\* C13 witness: Scene::hit has returned the hit of the first of two spheres
\* hit at the same smallest t, after a sphere hit farther away.
C13_Witness ==
    /\ SceneHitCall
    /\ ret.r.some
    /\ \E i, j, k \in SpheresHit :
           /\ i < j /\ j < k
           /\ THit(i) > THit(j)
           /\ THit(j) = THit(k)
           /\ ret.r = SphereHit(call.spheres[j], call.ray)
           /\ ret.r # SphereHit(call.spheres[k], call.ray)

\* The bytes of a pixel have been computed.
PixelBytesCall == ret.called /\ call.fn = "PixelBytes"

\* 255.99 * sqrt(a), and the channels of the call in byte order.
Scaled(a) == FMul(255990, FSqrt(a))

Channels == <<call.color.x, call.color.y, call.color.z>>

\* C14 (as stated): every color byte is 255.99 * sqrt(a) rounded to the
\* nearest integer, and the fourth byte is 255.  Violated wherever the
\* fraction of 255.99 * sqrt(a) is a half or more.
C14_BytesRounded ==
    PixelBytesCall =>
        /\ \A k \in 1 .. 3 : ret.r[k] = RDiv(Scaled(Channels[k]), SCALE)
        /\ ret.r[4] = 255

\* C14 (amended): every color byte is the integer part of 255.99 * sqrt(a)
\* (the fraction is dropped, not rounded) for a in [0, 1], and the fourth
\* byte is 255.
C14_BytesTruncated ==
    PixelBytesCall =>
        /\ \A k \in 1 .. 3 :
               Channels[k] \in 0 .. SCALE =>
                   /\ ret.r[k] \in 0 .. 255
                   /\ ret.r[k] * SCALE <= Scaled(Channels[k])
                   /\ Scaled(Channels[k]) < (ret.r[k] + 1) * SCALE
        /\ ret.r[4] = 255

\* C14 witness: the bytes of a pixel with a channel of radiance 0.25, where
\* 255.99 * sqrt(a) = 127.995; its byte is 127.
C14_Witness ==
    /\ PixelBytesCall
    /\ call.color.x = 250
    /\ ret.r[1] = 127
    /\ call.color.y = SCALE
    /\ ret.r[2] = 255

\* C15 (as stated): after bbox += &p and after bbox += &other the box is the
\* one &bbox + &p and &bbox + &other return: every bound the smaller or the
\* larger of the two values of its own axis.  Violated on the z axis whenever
\* the y bound and the z bound of the box differ enough.
C15_AddAssignIsAdd ==
    /\ (ret.called /\ call.fn = "bbox += &p") => ret.r = AddPoint(call.bbox, call.p)
    /\ (ret.called /\ call.fn = "bbox += &other") => ret.r = AddBox(call.bbox, call.other)

\* C16 (as stated): inverse panics for every matrix whose determinant is
\* zero, and returns no matrix for it.  Violated in a build without debug
\* assertions, where it returns a matrix of infinite and NaN entries.
C16_SingularPanics ==
    (ret.called /\ call.fn = "inverse" /\ determinant(call.m) = 0) => ret.r = Panicked

\* The square of a vector's length, without rounding (in units of 1 / SCALE^2).
ExactLengthSquared(v) == v.x * v.x + v.y * v.y + v.z * v.z

\* reflect has been called with a normal of length 1.
ReflectUnitCall ==
    ret.called /\ call.fn = "reflect" /\ ExactLengthSquared(call.n) = SCALE * SCALE

\* C17: for a unit vector n and an incident vector v, reflect(v, n) is
\* v - 2 * dot(v, n) * n, and it is as long as v.
C17_ReflectFormulaAndLength ==
    ReflectUnitCall =>
        /\ ret.r = VSub(call.v, VScale(2 * dot(call.v, call.n), call.n))
        /\ ExactLengthSquared(ret.r) = ExactLengthSquared(call.v)

\* C17 witness: reflect has returned for an incident vector neither along
\* nor across an oblique unit normal, and the result is another vector.
C17_Witness ==
    /\ ReflectUnitCall
    /\ call.n.x # 0 /\ call.n.y # 0
    /\ dot(call.v, call.n) # 0
    /\ ret.r # call.v
    /\ ret.r # VNeg(call.v)

\* C20: Sphere::hit returns no hit when the discriminant is <= 0; when it is
\* positive it returns the hit at the smaller root t1 if t1 > 0, otherwise at
\* the larger root t2 if t2 > 0, otherwise no hit; and every hit Sphere::hit
\* or Scene::hit returns has t > 0.
C20_PositiveRoot ==
    /\ SphereHitCall =>
           Let2(call.sphere, call.ray, LAMBDA s, ray :
               IF Discriminant(s, ray) <= 0 THEN ret.r = NoHit
               ELSE /\ Root1(s, ray) <= Root2(s, ray)
                    /\ IF Root1(s, ray) > 0 THEN ret.r.some /\ ret.r.t = Root1(s, ray)
                       ELSE IF Root2(s, ray) > 0 THEN ret.r.some /\ ret.r.t = Root2(s, ray)
                       ELSE ret.r = NoHit)
    /\ (SphereHitCall \/ SceneHitCall) => (ret.r.some => ret.r.t > 0)

\* C20 witness: Sphere::hit has returned, for a ray that starts inside the
\* sphere, the hit at the larger root, the smaller one being negative.
C20_Witness ==
    /\ SphereHitCall
    /\ Discriminant(call.sphere, call.ray) > 0
    /\ Root1(call.sphere, call.ray) < 0
    /\ ret.r.some
    /\ ret.r.t = Root2(call.sphere, call.ray)
    /\ ret.r.t > 0

(***************************************************************************)
(* Properties of the recursion and the rejection loops.                    *)
(***************************************************************************)
\* The bounds of the rejection loops trace_ray can enter in a scene: 1 for a
\* Diffuse sphere, the roughness for a Metal sphere of positive roughness.
LoopBounds(scn) ==
    {SCALE : k \in {j \in 1 .. Len(scn) : scn[j].m.kind = "Diffuse"}}
        \cup {scn[k].m.roughness :
                  k \in {j \in 1 .. Len(scn) : scn[j].m.kind = "Metal" /\ scn[j].m.roughness > 0}}

\* Some rejection loop of the scene, entered somewhere in the stream, accepts
\* no sample of it.
SomeLoopEndless(scn, s) ==
    \E bound \in LoopBounds(scn), p \in 0 .. (Len(s) - 1) :
        ~BallLoop(Rng(s, p), bound, 0, Len(s)).ok

\* C18: a call of trace_ray at depth d < MAX_DEPTH that returns has made, with
\* its recursive calls, at most MAX_DEPTH - d intersection tests and at most
\* MAX_DEPTH - d + 1 invocations (MAX_DEPTH and MAX_DEPTH + 1 for a primary
\* ray), one invocation per level and at most one test per invocation; and
\* the call returns unless a rejection loop it can enter never accepts.
C18_BoundedRecursion ==
    (tr_out.called /\ tr_in.depth < MAX_DEPTH) =>
        /\ tr_out.r.ok =>
               /\ tr_out.r.nhit <= MAX_DEPTH - tr_in.depth
               /\ tr_out.r.ncall <= MAX_DEPTH - tr_in.depth + 1
               /\ tr_out.r.ncall \in {tr_out.r.nhit, tr_out.r.nhit + 1}
        /\ ~tr_out.r.ok => SomeLoopEndless(tr_in.scene, tr_in.rng.s)

\* C18 witness: a primary ray has bounced down to the depth cutoff:
\* MAX_DEPTH intersection tests and MAX_DEPTH + 1 invocations.
C18_Witness ==
    /\ tr_out.called
    /\ tr_in.depth = 0
    /\ tr_out.r.ok
    /\ tr_out.r.nhit = MAX_DEPTH
    /\ tr_out.r.ncall = MAX_DEPTH + 1

\* The stream s, read from position p, eventually yields a pair the lens loop
\* accepts: u * u + v * v < 1.
LensAccepted(s, p) ==
    \E k \in 0 .. (Len(s) - 1) :
        Let2(Gen(Rng(s, p), 2 * k), Gen(Rng(s, p), 2 * k + 1), LAMBDA u, v :
            FMul(u, u) + FMul(v, v) < SCALE)

\* The stream s, read from position p, eventually yields a triple a loop of
\* trace_ray accepts: mapped to [-1, 1)^3, its squared length is below bound.
BallAccepted(s, p, bound) ==
    \E k \in 0 .. (Len(s) - 1) :
        length_squared(Vec3(2 * Gen(Rng(s, p), 3 * k) - SCALE,
                            2 * Gen(Rng(s, p), 3 * k + 1) - SCALE,
                            2 * Gen(Rng(s, p), 3 * k + 2) - SCALE)) < bound

\* Every stream of the run eventually yields an accepted sample to every
\* loop, wherever the loop starts reading; and no stream of the run does.
StreamsFair ==
    \A s \in seeds : \A p \in 0 .. (Len(s) - 1) :
        /\ LensAccepted(s, p)
        /\ \A bound \in LoopBounds(scene) : BallAccepted(s, p, bound)

StreamsBarren ==
    \A s \in seeds :
        \/ \A p \in 0 .. (Len(s) - 1) : ~LensAccepted(s, p)
        \/ \A p \in 0 .. (Len(s) - 1) : \A bound \in LoopBounds(scene) : ~BallAccepted(s, p, bound)

\* Worker w is in a pixel whose sampling never ends.
Stuck(w) ==
    /\ wstatus[w] = "running"
    /\ wy[w] < wtile[w].max_y
    /\ wx[w] < wtile[w].max_x
    /\ ~PixelTable[<<scene, camera, wx[w], wy[w], wrng[RngOf(w)]>>].ok

\* C19: the lens loop and the two loops of trace_ray end exactly when the
\* stream eventually yields a sample they accept, after however many rounds.
\* When every stream of the run does, render_scene returns or panics, and it
\* returns only after all its workers have.  When a stream does not, no step
\* takes a worker out of such a loop nor render_scene past the join of that
\* worker, and a run all of whose streams are such never returns.
C19_LoopsUncapped ==
    /\ [](\A s \in seeds : \A p \in 0 .. (Len(s) - 1) :
              /\ LensLoop(Rng(s, p), 0, Len(s)).ok <=> LensAccepted(s, p)
              /\ \A bound \in LoopBounds(scene) :
                     BallLoop(Rng(s, p), bound, 0, Len(s)).ok <=> BallAccepted(s, p, bound))
    /\ StreamsFair ~> (sched_pc \in {"returned", "panicked"})
    /\ [](sched_pc = "returned" => \A w \in Asked : wstatus[w] = "finished")
    /\ [][ /\ \A w \in Workers : Stuck(w) => Stuck(w)'
           /\ (sched_pc = "join" /\ join_i < num_threads /\ Stuck(join_i))
                  => (sched_pc' = "join" /\ join_i' = join_i) ]_vars
    /\ []((StreamsBarren /\ tile_height > 0) => sched_pc # "returned")

\* C19 witness: render_scene has joined a worker that ended and waits at the
\* join of a worker that is in a loop its stream gives no accepted sample to.
C19_Witness ==
    /\ sched_pc = "join"
    /\ join_i >= 1
    /\ join_i < num_threads
    /\ Stuck(join_i)
    /\ wstatus[0] = "finished"

(***************************************************************************)
(* Properties of the lens, the materials and the pixel loop.               *)
(***************************************************************************)
\* How far along the lens axis the stream s moves the ray origin of the call.
LensShift(s, axis) ==
    Let(generate_ray(call.cam, call.u, call.v, Rng(s, 0)), LAMBDA r :
        IF r.ok THEN dot(VSub(r.v.o, call.cam.origin), axis) ELSE 0)

\* C21 (as stated): the accepted lens sample can have either sign on each
\* coordinate: for a camera with a lens, the ray origin can be displaced in
\* both directions along each of the two lens axes.  Violated: no stream
\* of draws from [0, 1) displaces it against an axis.
C21_WholeDisk ==
    (ret.called /\ call.fn = "generate_ray" /\ call.cam.lens_radius > 0) =>
        /\ \E s \in TraceStreams : LensShift(s, call.cam.u_axis) > 0
        /\ \E s \in TraceStreams : LensShift(s, call.cam.u_axis) < 0
        /\ \E s \in TraceStreams : LensShift(s, call.cam.v_axis) > 0
        /\ \E s \in TraceStreams : LensShift(s, call.cam.v_axis) < 0

\* The ray choice of a Glass hit has been made.
GlassCall == ret.called /\ call.fn = "Glass"

\* The ray of the call enters the glass; the refraction ratio and the normal
\* it is then refracted and reflected with; and its refraction.
Entering == dot(call.ray.d, call.hit.n) < 0

GlassRatio == IF Entering THEN FDiv(SCALE, call.hit.m.ior) ELSE call.hit.m.ior

GlassNormal == IF Entering THEN call.hit.n ELSE VNeg(call.hit.n)

Refracted == refract(call.ray.d, GlassNormal, GlassRatio)

\* Refraction fails, or the draw is below the Schlick reflectance.
Reflects == ~Refracted.some \/ call.rand < Schlick(call.ray.d, GlassNormal, GlassRatio)

\* C22: on a Glass hit the ray continues from the hit point along the
\* (normalized) reflected direction iff refraction fails or the draw is below
\* the Schlick reflectance, and along the refracted direction otherwise; the
\* ray enters (ratio 1 / ior, normal kept) iff dot(ray.d, normal) < 0, and
\* exits (ratio ior, normal negated) otherwise.
C22_GlassReflectOrRefract ==
    GlassCall =>
        IF Reflects
        THEN ret.r = Ray(call.hit.p, normalize(reflect(call.ray.d, GlassNormal)))
        ELSE ret.r = Ray(call.hit.p, normalize(Refracted.v))

\* C22 witness: a ray leaving the glass at a slant has been refracted, away
\* from the negated normal.
C22_Witness ==
    /\ GlassCall
    /\ ~Entering
    /\ ~Reflects
    /\ dot(call.ray.d, call.hit.n) < FMul(length(call.ray.d), SCALE)
    /\ ret.r.d # normalize(call.ray.d)
    /\ ret.r.d # normalize(reflect(call.ray.d, GlassNormal))

\* The Metal branch has computed its ray.
MetalCall == ret.called /\ call.fn = "Metal"

\* The k-th candidate offset the stream of the call yields: three draws
\* mapped from [0,1) to [-1,1).
Candidate(k) ==
    Vec3(2 * Gen(call.rng, 3 * k) - SCALE, 2 * Gen(call.rng, 3 * k + 1) - SCALE,
         2 * Gen(call.rng, 3 * k + 2) - SCALE)

\* The candidates whose squared length is below the roughness, among those
\* the cyclic stream shows.
Accepted ==
    {k \in 0 .. Len(call.rng.s) - 1 :
        length_squared(Candidate(k)) < call.hit.m.roughness}

\* The first of them.
FirstAccepted == CHOOSE k \in Accepted : \A j \in Accepted : k <= j

\* C23: on a Metal hit with roughness <= 0 no number is drawn and the ray
\* continues along the exact mirror reflection; with roughness > 0 candidates
\* of the cube [-1,1)^3 are drawn, three numbers each, up to the first whose
\* squared length is below roughness, and that one is added to the
\* reflection (none accepted: the loop never ends).
C23_MetalMirrorOrRoughness ==
    MetalCall =>
        IF call.hit.m.roughness <= 0
        THEN /\ ret.r.ok
             /\ ret.r.ndraw = 0
             /\ ret.r.rng = call.rng
             /\ ret.r.v = Ray(call.hit.p, normalize(reflect(call.ray.d, call.hit.n)))
        ELSE IF Accepted = {}
        THEN ret.r = Looping
        ELSE /\ ret.r.ok
             /\ ret.r.ndraw = 3 * (FirstAccepted + 1)
             /\ ret.r.rng = Adv(call.rng, 3 * (FirstAccepted + 1))
             /\ \A c \in {Candidate(FirstAccepted)} :
                    /\ c.x \in -SCALE .. SCALE - 1
                    /\ c.y \in -SCALE .. SCALE - 1
                    /\ c.z \in -SCALE .. SCALE - 1
                    /\ ret.r.v = Ray(call.hit.p,
                                     normalize(VAdd(reflect(call.ray.d, call.hit.n), c)))

\* C23 witness: a rough metal has rejected a first candidate that lies inside
\* the unit ball but not below the roughness, and taken the second.
C23_Witness ==
    /\ MetalCall
    /\ call.hit.m.roughness > 0
    /\ call.hit.m.roughness < SCALE
    /\ length_squared(Candidate(0)) < SCALE
    /\ Accepted # {}
    /\ FirstAccepted = 1
    /\ ret.r.ndraw = 6
    /\ ret.r.v.d # normalize(reflect(call.ray.d, call.hit.n))

\* The radiance of a pixel has been computed, by a sample loop that ended.
PixelCall == ret.called /\ call.fn = "pixel" /\ ret.r.ok

\* With the generator at rng when a sample begins: the sample's position
\* (x + s) / IMAGE_WIDTH, 1 - (y + s') / IMAGE_HEIGHT, the camera ray
\* through it, and what tracing that ray at depth 0 comes to.
PositionAt(rng) ==
    <<FDiv(call.x * SCALE + Gen(rng, 0), IMAGE_WIDTH * SCALE),
      SCALE - FDiv(call.y * SCALE + Gen(rng, 1), IMAGE_HEIGHT * SCALE)>>

CameraRayAt(rng) ==
    Let(PositionAt(rng), LAMBDA pos :
        generate_ray(call.cam, pos[1] - 500, pos[2] - 500, Adv(rng, 2)))

RadianceAt(rng) ==
    Then(CameraRayAt(rng), LAMBDA ray : trace_ray(call.scn, ray.v, ray.rng, 0))

\* The generator before sample k, the radiances of samples 0 .. k-1 summed,
\* and the calls of trace_ray they made.
RECURSIVE RngBefore(_)
RngBefore(k) == IF k = 0 THEN call.rng ELSE RadianceAt(RngBefore(k - 1)).rng

RECURSIVE SumBefore(_)
SumBefore(k) ==
    IF k = 0 THEN Vec3(0, 0, 0)
    ELSE VAdd(SumBefore(k - 1), RadianceAt(RngBefore(k - 1)).v)

RECURSIVE CallsBefore(_)
CallsBefore(k) ==
    IF k = 0 THEN 0 ELSE CallsBefore(k - 1) + RadianceAt(RngBefore(k - 1)).ncall

\* a is sum / PIXEL_SAMPLES, up to the rounding of the reciprocal and of the
\* product.
IsAverage(a, sum) ==
    \A d \in {a * PIXEL_SAMPLES - sum} :
        (IF d < 0 THEN -d ELSE d) * SCALE
            <= PIXEL_SAMPLES * SCALE + (IF sum < 0 THEN -sum ELSE sum) * PIXEL_SAMPLES

\* The footprint of the pixel of the call on the image plane.
InFootprint(pos) ==
    /\ FDiv(call.x * SCALE, IMAGE_WIDTH * SCALE) <= pos[1]
    /\ pos[1] <= FDiv((call.x + 1) * SCALE, IMAGE_WIDTH * SCALE)
    /\ SCALE - FDiv((call.y + 1) * SCALE, IMAGE_HEIGHT * SCALE) <= pos[2]
    /\ pos[2] <= SCALE - FDiv(call.y * SCALE, IMAGE_HEIGHT * SCALE)

\* C24: the radiance of a pixel is the sum of exactly PIXEL_SAMPLES camera
\* rays, each traced at depth 0, divided by PIXEL_SAMPLES; every sample's
\* position lies in the pixel's footprint, and the rays of image row 0 point
\* to the top of the viewport, those of the last row to the bottom.
C24_SamplesPerPixel ==
    PixelCall =>
        /\ \A k \in 0 .. (PIXEL_SAMPLES - 1) :
              /\ InFootprint(PositionAt(RngBefore(k)))
              /\ call.y = 0 => CameraRayAt(RngBefore(k)).v.d.y > 0
              /\ call.y = IMAGE_HEIGHT - 1 => CameraRayAt(RngBefore(k)).v.d.y < 0
        /\ ret.r.rng = RngBefore(PIXEL_SAMPLES)
        /\ ret.r.ncall = CallsBefore(PIXEL_SAMPLES)
        /\ call.scn = <<>> => ret.r.ncall = PIXEL_SAMPLES /\ ret.r.nhit = PIXEL_SAMPLES
        /\ \A sum \in {SumBefore(PIXEL_SAMPLES)} :
              /\ IsAverage(ret.r.v.x, sum.x)
              /\ IsAverage(ret.r.v.y, sum.y)
              /\ IsAverage(ret.r.v.z, sum.z)

\* C24 witness: a pixel of row 0 whose samples differ and are not black has
\* been averaged.
C24_Witness ==
    /\ PixelCall
    /\ call.y = 0
    /\ call.scn # <<>>
    /\ PositionAt(RngBefore(0)) # PositionAt(RngBefore(1))
    /\ SumBefore(PIXEL_SAMPLES) # Vec3(0, 0, 0)
    /\ ret.r.v # SumBefore(PIXEL_SAMPLES)

\* The channels of the call whose 255.99 * sqrt(a) is 256 or more.
Overflowing == {k \in 1 .. 3 : Channels[k] > SCALE /\ Scaled(Channels[k]) >= 256 * SCALE}

\* C25 (as stated): the byte of a channel whose 255.99 * sqrt(a) is 256 or
\* more is the integer part modulo 256.  Violated by every such channel whose
\* integer part is not 255 modulo 256: the byte written is 255.
C25_BytesWrap ==
    PixelBytesCall =>
        \A k \in Overflowing : ret.r[k] = (Scaled(Channels[k]) \div SCALE) % 256

\* C25 (amended): the byte of a channel whose 255.99 * sqrt(a) is 256 or
\* more is 255, the largest value of u8: the conversion saturates.
C25_BytesSaturate ==
    PixelBytesCall => \A k \in Overflowing : ret.r[k] = 255

\* C25 witness: the bytes of a pixel whose first channel has radiance 2,
\* where the integer part of 255.99 * sqrt(a) is between 256 and 510, so not
\* 255 modulo 256.
C25_Witness ==
    /\ PixelBytesCall
    /\ 1 \in Overflowing
    /\ call.color.x = 2000
    /\ (Scaled(call.color.x) \div SCALE) % 256 # 255
    /\ ret.r[1] = 255

(***************************************************************************)
(* Properties of the tiles and the buffers (Spec).                         *)
(***************************************************************************)
\* floor(IMAGE_HEIGHT / num_threads), for num_threads >= 1.
FloorHeight == IMAGE_HEIGHT \div num_threads

\* The image rows worker w has written a pixel of.
RowsBegun(w) ==
    {y \in 0 .. (IMAGE_HEIGHT - 1) :
        /\ wstatus[w] \in {"running", "finished", "panicked"}
        /\ wtile[w].min_y <= y
        /\ y < wy[w] \/ (y = wy[w] /\ wx[w] > wtile[w].min_x)}

\* C26: for num_threads >= 1 the tile of worker i is the rows
\* [i * floor(H / N), (i + 1) * floor(H / N)) over the full width; the tiles
\* are ascending, contiguous and pairwise disjoint, no row is written by two
\* workers, and the rows from N * floor(H / N) on are written by no worker
\* and are absent from the returned buffer.
C26_TilesPartitionRows ==
    num_threads >= 1 =>
        /\ \A w \in Workers : w < spawn_i =>
               wtile[w] = Tile(0, w * FloorHeight, IMAGE_WIDTH, (w + 1) * FloorHeight)
        /\ \A v, w \in Workers : (v < w /\ w < spawn_i) =>
               /\ wtile[v].max_y <= wtile[w].min_y
               /\ w = v + 1 => wtile[v].max_y = wtile[w].min_y
               /\ RowsBegun(v) \cap RowsBegun(w) = {}
        /\ \A y \in 0 .. (IMAGE_HEIGHT - 1) : \A x \in 0 .. (IMAGE_WIDTH - 1) :
               /\ pix[y * IMAGE_WIDTH + x] # <<>> =>
                      \E w \in Asked : y \in RowsBegun(w) /\ y \div FloorHeight = w
               /\ y >= num_threads * FloorHeight => pix[y * IMAGE_WIDTH + x] = <<>>
        /\ sched_pc = "returned" =>
               /\ Len(result) = num_threads * FloorHeight * IMAGE_WIDTH * 4
               /\ \A y \in 0 .. (num_threads * FloorHeight - 1) :
                      \A x \in 0 .. (IMAGE_WIDTH - 1) : \A b \in 1 .. 4 :
                          result[4 * (y * IMAGE_WIDTH + x) + b] = pix[y * IMAGE_WIDTH + x][b]

\* C26 witness: render_scene has returned the buffer of two or more tiles
\* that leave the last row of the image out.
C26_Witness ==
    /\ sched_pc = "returned"
    /\ num_threads >= 2
    /\ num_threads < IMAGE_HEIGHT
    /\ IMAGE_HEIGHT % num_threads # 0
    /\ wtile[num_threads - 1].max_y < IMAGE_HEIGHT
    /\ pix[(IMAGE_HEIGHT - 1) * IMAGE_WIDTH] = <<>>
    /\ pix[0] # <<>>
    /\ Len(result) = num_threads * FloorHeight * IMAGE_WIDTH * 4

\* Of the tile of worker w: its width, the size of its buffer, and the
\* pixels the loops of w have passed, counted row by row.
TileWidth(w) == wtile[w].max_x - wtile[w].min_x

AllocSize(w) == (wtile[w].max_y - wtile[w].min_y) * (wtile[w].max_x - wtile[w].min_x) * 4

PixelsDone(w) == (wy[w] - wtile[w].min_y) * TileWidth(w) + (wx[w] - wtile[w].min_x)

\* The image pixel that is the j-th of the tile of w in row-major order.
TilePixel(w, j) ==
    (wtile[w].min_y + (j \div TileWidth(w))) * IMAGE_WIDTH
        + wtile[w].min_x + (j % TileWidth(w))

\* The buffer of w holds the bytes of the first wi / 4 pixels of its tile in
\* row-major order, and nothing has been written behind them.
WrittenInOrder(w) ==
    /\ \A j \in 0 .. (PixelsDone(w) - 1) : \A b \in 1 .. 4 :
           woutput[w][4 * j + b] = pix[TilePixel(w, j)][b]
    /\ \A k \in 1 .. Len(woutput[w]) : k > wi[w] => woutput[w][k] = 0

\* C27: render_tile allocates (max_y - min_y) * (max_x - min_x) * 4 bytes;
\* the write index starts at 0 and is four times the pixels passed in
\* row-major order; when a pixel is to be written it is at most size - 4, and
\* the write never goes out of bounds; a write changes the four bytes at the
\* index only and moves the index on by 4, so that each byte is written
\* once; and the index is the size of the buffer when the tile is finished.
C27_WriteIndexInBounds ==
    /\ [](\A w \in Workers : wstatus[w] \in {"running", "finished"} =>
              /\ Len(woutput[w]) = AllocSize(w)
              /\ wi[w] = 4 * PixelsDone(w)
              /\ wi[w] <= AllocSize(w)
              /\ (wy[w] < wtile[w].max_y /\ wx[w] < wtile[w].max_x) =>
                     wi[w] <= AllocSize(w) - 4
              /\ wstatus[w] = "finished" => wi[w] = AllocSize(w)
              /\ WrittenInOrder(w))
    /\ [][\A w \in Workers :
              /\ (wstatus[w] = "spawned" /\ wstatus'[w] = "running") => wi'[w] = 0
              /\ wstatus[w] = "running" =>
                     /\ wstatus'[w] # "panicked"
                     /\ wi'[w] \in {wi[w], wi[w] + 4}
                     /\ wi'[w] = wi[w] => woutput'[w] = woutput[w]
                     /\ \A k \in 1 .. Len(woutput[w]) :
                            (k <= wi[w] \/ k > wi[w] + 4) => woutput'[w][k] = woutput[w][k]]_vars

\* C27 witness: a worker has finished a tile of two or more rows and columns
\* with the index at the end of a buffer no byte of which is left unwritten.
C27_Witness ==
    \E w \in Workers :
        /\ wstatus[w] = "finished"
        /\ wtile[w].max_y - wtile[w].min_y >= 2
        /\ TileWidth(w) >= 2
        /\ wi[w] = AllocSize(w)
        /\ Len(woutput[w]) = wi[w]
        /\ \A j \in 0 .. ((wi[w] \div 4) - 1) : woutput[w][4 * j + 4] = 255

(***************************************************************************)
(* The range of the radiance (SpecTrace, SpecFn).                          *)
(***************************************************************************)
\* Every channel of c is a number of [0, 1] (a NaN is not).
InUnit(c) ==
    /\ c # NaNVec
    /\ c.x \in 0 .. SCALE
    /\ c.y \in 0 .. SCALE
    /\ c.z \in 0 .. SCALE

\* Every colour of material m is in [0, 1]: albedo and texture colours,
\* attenuation, emission.
MaterialInUnit(m) ==
    CASE m.kind = "Diffuse" ->
           /\ InUnit(m.albedo)
           /\ m.texture.kind = "Checkered" => InUnit(m.texture.c1) /\ InUnit(m.texture.c2)
      [] m.kind = "Metal" -> InUnit(m.albedo)
      [] m.kind = "Glass" -> InUnit(m.attenuation)
      [] m.kind = "Light" -> InUnit(m.color)
      [] OTHER -> TRUE

\* The call of trace_ray has returned, from a scene of such materials.
ReturnedInUnitScene ==
    /\ tr_out.called
    /\ tr_out.r.ok
    /\ \A k \in 1 .. Len(tr_in.scene) : MaterialInUnit(tr_in.scene[k].m)

\* No offset a Metal of the scene accepts can cancel the reflection of a ray
\* as long as the ray of the call: every roughness is at most 1, and the
\* ray's direction is not shorter than 1.
NoCancellation ==
    /\ length_squared(tr_in.ray.d) >= SCALE
    /\ \A k \in 1 .. Len(tr_in.scene) :
           tr_in.scene[k].m.kind = "Metal" => tr_in.scene[k].m.roughness <= SCALE

PixelAverageInUnit ==
    PixelCall => InUnit(ret.r.v) /\ \A k \in 1 .. 3 : PixelBytes(ret.r.v)[k] <= 255

(***************************************************************************)
(* Thread counts out of range (Spec).                                      *)
(***************************************************************************)
\* C29: with num_threads = 0 render_scene leaves its start only by
\* panicking, at the division, with no worker spawned and no buffer; with
\* num_threads > IMAGE_HEIGHT the tile height is 0, every worker is given an
\* empty tile, allocates an empty buffer and writes no pixel, and the buffer
\* returned is empty.
C29_ZeroAndTooManyThreads ==
    /\ num_threads = 0 =>
           /\ sched_pc \in {"start", "panicked"}
           /\ spawn_i = 0
           /\ \A w \in Workers : wstatus[w] = "unspawned"
           /\ result = <<>>
    /\ (num_threads > IMAGE_HEIGHT /\ sched_pc # "start") =>
           /\ tile_height = 0
           /\ \A w \in Workers : w < spawn_i =>
                  /\ wtile[w].max_y = wtile[w].min_y
                  /\ woutput[w] = <<>>
                  /\ wi[w] = 0
           /\ \A k \in 0 .. (IMAGE_WIDTH * IMAGE_HEIGHT - 1) : pix[k] = <<>>
           /\ result = <<>>
           /\ sched_pc = "returned" => \A w \in Asked : wstatus[w] = "finished"

\* C29 witness: render_scene has returned an empty buffer after joining more
\* workers than the image has rows, each finished on an empty tile.
C29_Witness ==
    /\ sched_pc = "returned"
    /\ num_threads > IMAGE_HEIGHT
    /\ join_i = num_threads
    /\ \A w \in Asked : wstatus[w] = "finished" /\ TileSize(wtile[w]) = 0
    /\ result = <<>>

=============================================================================
